---------------------------- MODULE Spec2Model ----------------------------
(***************************************************************************)
(* Model of rb-forest: an arena-backed forest of threaded red-black trees. *)
(*                                                                         *)
(* Conventions.                                                            *)
(*  - An arena index i of the source (0-based usize) is the position i+1   *)
(*    of the sequence `items`; the null reference Option::None is 0.       *)
(*  - A two-element array of the source ([NodeRef; 2]) is a function on    *)
(*    {0, 1}, so children[I], order[I] and range[I] keep the source's      *)
(*    indices; the const generic I of the source is a parameter.           *)
(*  - A "writer" w is what a guard gives the algorithms: the shared arena  *)
(*    (w.a) and the Bounds of the one tree the guard belongs to (w.m).     *)
(*  - Sequential code becomes a chain of LET-bound writers w1, w2, ...;    *)
(*    a loop becomes a RECURSIVE operator.                                 *)
(*  - The value type is the augmented one of src/src/test/cumulant.rs      *)
(*    (WithSum): a local value and a cumulant that is the sum of the       *)
(*    subtree's local values.                                              *)
(***************************************************************************)
EXTENDS Integers, Sequences, FiniteSets, TLC

\* ------------------------------------------------------------------ bounds
\* Keys 1..FreeKeys may be inserted and removed in any order ("free" mode).
FreeKeys == 3
\* Keys 1..PermKeys are inserted in any order, each once ("perm" mode).
PermKeys == 5
\* Keys 1..MaxKey are inserted in ascending order ("asc" mode).
MaxKey == 12
\* Number of removals after an ascending build.
MaxRemove == 2
\* Keys 1..UnionKeys are shared out between the two operands of a union.
UnionKeys == 8

\* iter_mut callers change the values of any subset of the keys 1..IterKeys.
IterKeys == 2
\* Keys of the trees that filter walks.
FilterKeys == 5
\* Largest key of the two trees that are joined and split again.
SplitJoinKeys == 11
\* Slots of the arena that is driven directly, and inserts into it.
ArenaSlots == 4
ArenaInserts == 6
\* Largest black_height of the trees len_estimate is applied to.
MaxBlackHeight == 20
\* Width of usize in bits.
UsizeBits == 64

\* Bulk construction takes keys up to BulkMax, each 1 or 2 above the last.
BulkMax == 17

\* Threads that call into one forest, and the trees (ports) of that forest.
NThreads == 2
NTrees == 3
\* Free capacity of the arena's vector right after a reserve.
MaxSpare == 2

\* A forest of keys 1..ForestKeys with up to ForestRemoves removals before
\* the split.
ForestKeys == 4
ForestRemoves == 1

\* A direct join is tried on operands that hold up to JoinKeys keys together.
JoinKeys == 5

\* Allocations one arena serves in "free" mode (Arena::len only ever grows).
MaxInserts == 5

\* Local values a caller passes to insert in "free" mode.
Vals == {1, 2}

\* ------------------------------------------------------------ primitives
None == 0

Red == "Red"
Black == "Black"

Pair(a, b) == [i \in 0..1 |-> IF i = 0 THEN a ELSE b]

NewNode(key, value, color) ==
    [key |-> key, value |-> value, cum |-> 0, color |-> color,
     parent |-> None, children |-> Pair(None, None), order |-> Pair(None, None)]

Occupied(node) == [occ |-> TRUE, node |-> node, next |-> None]
Free(next) == [occ |-> FALSE, node |-> NewNode(0, 0, Black), next |-> next]

DefaultBounds == [root |-> None, range |-> Pair(None, None), black_height |-> 0]

EmptyArena == [items |-> << >>, free |-> None, len |-> 0]

\* An insert that reuses the head of the free list and leaves it the head.
ArenaInsertKeepsHead(a, node) ==
    IF a.free # None
    THEN [a |-> [a EXCEPT !.items[a.free] = Occupied(node),
                          !.len = a.len + 1],
          index |-> a.free]
    ELSE [a |-> [a EXCEPT !.items = Append(a.items, Occupied(node)),
                          !.len = a.len + 1],
          index |-> Len(a.items) + 1]

\* Arena::insert_within_capacity behind PortAllocGuard::insert: reuse the head
\* of the free list, else append.  Returns the arena and the index.
ArenaInsert(a, node) ==
    IF a.free # None
    THEN [a |-> [a EXCEPT !.items[a.free] = Occupied(node),
                          !.free = a.items[a.free].next,
                          !.len = a.len + 1],
          index |-> a.free]
    ELSE [a |-> [a EXCEPT !.items = Append(a.items, Occupied(node)),
                          !.len = a.len + 1],
          index |-> Len(a.items) + 1]

\* A remove that makes the freed slot the whole free list.
ArenaRemoveDropsList(a, index) ==
    IF index < 1 \/ index > Len(a.items) \/ ~a.items[index].occ
    THEN [a |-> a, ok |-> FALSE, node |-> NewNode(0, 0, Black)]
    ELSE [a |-> [a EXCEPT !.items[index] = Free(None), !.free = index],
          ok |-> TRUE, node |-> a.items[index].node]

\* Arena::remove: None (0 here, as `ok`) when out of range or not occupied.
ArenaRemove(a, index) ==
    IF index < 1 \/ index > Len(a.items) \/ ~a.items[index].occ
    THEN [a |-> a, ok |-> FALSE, node |-> NewNode(0, 0, Black)]
    ELSE [a |-> [a EXCEPT !.items[index] = Free(a.free), !.free = index],
          ok |-> TRUE, node |-> a.items[index].node]

\* Arena::get: the value of an Occupied slot in range.
ArenaGet(a, index) ==
    IF index >= 1 /\ index <= Len(a.items) /\ a.items[index].occ
    THEN [some |-> TRUE, value |-> a.items[index].node.value]
    ELSE [some |-> FALSE, value |-> 0]

\* Arena::contains
ArenaContains(a, index) ==
    index >= 1 /\ index <= Len(a.items) /\ a.items[index].occ

\* Arena::is_full, given the capacity left in the vector.
IsFull(a, spare) == a.free = None /\ spare = 0

\* tree[index]
Nd(w, i) == w.a.items[i].node

IsRed(w, i) == Nd(w, i).color = Red
IsBlack(w, i) == Nd(w, i).color = Black

SetColor(w, i, c) == [w EXCEPT !.a.items[i].node.color = c]
SetParent(w, i, p) == [w EXCEPT !.a.items[i].node.parent = p]
SetChild(w, i, I, c) == [w EXCEPT !.a.items[i].node.children[I] = c]
SetOrder(w, i, I, o) == [w EXCEPT !.a.items[i].node.order[I] = o]

\* discard! { tree[i?].field = x }: nothing happens when i is None.
SetParentOpt(w, i, p) == IF i = None THEN w ELSE SetParent(w, i, p)
SetOrderOpt(w, i, I, o) == IF i = None THEN w ELSE SetOrder(w, i, I, o)

\* ------------------------------------------------------------- cumulants
\* The value type of the forest: NoCumulant (FALSE) or the augmented WithSum.
VARIABLE has_cumulant

\* V::has_cumulant()
HasCumulant == has_cumulant

CumOf(w, i) == IF i = None THEN 0 ELSE Nd(w, i).cum

\* Tree::update_cumulant with the fold of WithSum: v + c[0] + c[1].
UpdateCumulant(w, ptr) ==
    LET n == Nd(w, ptr)
    IN [w EXCEPT !.a.items[ptr].node.cum =
            n.value + CumOf(w, n.children[0]) + CumOf(w, n.children[1])]

RECURSIVE PropagateCumulant(_, _)
PropagateCumulant(w, ptr) ==
    IF ptr = None THEN w
    ELSE PropagateCumulant(UpdateCumulant(w, ptr), Nd(w, ptr).parent)


\* An update_cumulants that refreshes the given node only.
UpdateCumulantsRootOnly(w, ptr) == UpdateCumulant(w, ptr)

\* Tree::update_cumulants: the cumulants of the subtree of ptr, children
\* first.
RECURSIVE UpdateCumulants(_, _)
UpdateCumulants(w, ptr) ==
    UpdateCumulant(
        IF Nd(w, ptr).children[1] = None
        THEN (IF Nd(w, ptr).children[0] = None THEN w
              ELSE UpdateCumulants(w, Nd(w, ptr).children[0]))
        ELSE UpdateCumulants(
                 IF Nd(w, ptr).children[0] = None THEN w
                 ELSE UpdateCumulants(w, Nd(w, ptr).children[0]),
                 Nd(w, ptr).children[1]),
        ptr)

\* ------------------------------------------------------- tree primitives
\* `let x = e; body` of the source is Bind({body : x \in {e}}): e is
\* evaluated once and x names its value in body.
Bind(S) == CHOOSE y \in S : TRUE

\* Tree::replace: put `new` (may be None) where `old` hangs.
Replace(w, old, new) ==
    LET parent == Nd(w, old).parent
    IN IF parent # None
       THEN IF Nd(w, parent).children[0] = old
            THEN SetChild(SetParentOpt(w, new, parent), parent, 0, new)
            ELSE SetChild(SetParentOpt(w, new, parent), parent, 1, new)
       ELSE [SetParentOpt(w, new, parent) EXCEPT !.m.root = new]

\* Tree::rotate::<I>: children[1 - I] of ptr moves up, ptr becomes its child I.
Rotate(w, I, ptr) ==
    LET pivot == Nd(w, ptr).children[1 - I]
        child == Nd(w, pivot).children[I]
    IN SetParentOpt(
         SetChild(SetParent(SetChild(Replace(w, ptr, pivot), pivot, I, ptr),
                            ptr, pivot),
                  ptr, 1 - I, child),
         child, ptr)

\* Ordering of a.cmp(b)
Cmp(a, b) == IF a < b THEN "Less" ELSE IF a = b THEN "Equal" ELSE "Greater"

SearchResult(tag, at) == [tag |-> tag, at |-> at]

\* The closure handed to search_by, as data: `cmp.key` makes it
\* |node| node.key.cmp(key), the only closure the crate itself builds.
Compare(cmp, node) == Cmp(node.key, cmp.key)

\* The descent loop of Tree::search_by.
RECURSIVE SearchDescend(_, _, _, _, _)
SearchDescend(w, ptr, parent, left, cmp) ==
    IF ptr = None
    THEN IF left THEN SearchResult("LeftOf", parent)
                 ELSE SearchResult("RightOf", parent)
    ELSE LET node == Nd(w, ptr)
             c == Compare(cmp, node)
         IN IF c = "Greater" THEN SearchDescend(w, node.children[0], ptr, TRUE, cmp)
            ELSE IF c = "Equal" THEN SearchResult("Here", ptr)
            ELSE SearchDescend(w, node.children[1], ptr, FALSE, cmp)

\* A search_by whose range check reports a target above the maximum as
\* lying left of it.
SearchByAboveIsLeft(w, ptr, cmp) ==
    LET min == w.m.range[0]
        max == w.m.range[1]
    IN IF min = None \/ max = None THEN SearchResult("Empty", None)
       ELSE IF Compare(cmp, Nd(w, min)) = "Greater" THEN SearchResult("LeftOf", min)
       ELSE IF Compare(cmp, Nd(w, min)) = "Equal" THEN SearchResult("Here", min)
       ELSE IF Compare(cmp, Nd(w, max)) = "Less" THEN SearchResult("LeftOf", max)
       ELSE IF Compare(cmp, Nd(w, max)) = "Equal" THEN SearchResult("Here", max)
       ELSE SearchDescend(w, ptr, None, FALSE, cmp)

\* Tree::search_by: the range check first, then the descent from ptr.
SearchBy(w, ptr, cmp) ==
    LET min == w.m.range[0]
        max == w.m.range[1]
    IN IF min = None \/ max = None THEN SearchResult("Empty", None)
       ELSE IF Compare(cmp, Nd(w, min)) = "Greater" THEN SearchResult("LeftOf", min)
       ELSE IF Compare(cmp, Nd(w, min)) = "Equal" THEN SearchResult("Here", min)
       ELSE IF Compare(cmp, Nd(w, max)) = "Less" THEN SearchResult("RightOf", max)
       ELSE IF Compare(cmp, Nd(w, max)) = "Equal" THEN SearchResult("Here", max)
       ELSE SearchDescend(w, ptr, None, FALSE, cmp)

\* Tree::search: search_by with node.key.cmp(key).
Search(w, ptr, key) == SearchBy(w, ptr, [key |-> key])

\* ----------------------------------------------------------------- insert
\* The helper::<I, J> of Tree::fix_insert: the uncle is children[I] of the
\* grandparent, J is the side of ptr under its parent.  Returns the writer
\* and the new focus.
FixInsertHelper(w, I, J, ptr, parent, grandparent) ==
    LET uncle == Nd(w, grandparent).children[I]
    IN IF uncle # None /\ IsRed(w, uncle)
       THEN [w |-> SetColor(SetColor(SetColor(w, uncle, Black), parent, Black),
                            grandparent, Red),
             ptr |-> grandparent]
       ELSE Bind({
              LET ptr1 == IF I = J THEN parent ELSE ptr
                  parent1 == Nd(w1, ptr1).parent
                  grandparent1 == Nd(w1, parent1).parent
              IN Bind({
                   [w |-> IF HasCumulant THEN UpdateCumulant(w2, grandparent1) ELSE w2,
                    ptr |-> ptr1]
                   : w2 \in {Rotate(SetColor(SetColor(w1, parent1, Black),
                                             grandparent1, Red),
                                    I, grandparent1)} })
              : w1 \in {IF I = J
                        THEN IF HasCumulant
                             THEN UpdateCumulant(Rotate(w, 1 - I, parent), parent)
                             ELSE Rotate(w, 1 - I, parent)
                        ELSE w} })

\* The loop of Tree::fix_insert.
RECURSIVE FixInsertLoop(_, _)
FixInsertLoop(w, ptr) ==
    LET parent == Nd(w, ptr).parent
        grandparent == Nd(w, parent).parent
        J == IF Nd(w, parent).children[0] = ptr THEN 0 ELSE 1
        I == IF Nd(w, grandparent).children[1] = parent THEN 0 ELSE 1
    IN IF IsBlack(w, parent) THEN w
       ELSE Bind({
              IF h.ptr = h.w.m.root THEN h.w ELSE FixInsertLoop(h.w, h.ptr)
              : h \in {FixInsertHelper(w, I, J, ptr, parent, grandparent)} })

\* A fix_insert that leaves the root as the loop left it.
FixInsertNoPaint(w, ptr) == FixInsertLoop(w, ptr)

\* Tree::fix_insert: the loop, then a red root is painted black.
FixInsert(w, ptr) ==
    Bind({
      IF IsRed(w1, w1.m.root)
      THEN [SetColor(w1, w1.m.root, Black) EXCEPT !.m.black_height = @ + 1]
      ELSE w1
      : w1 \in {FixInsertLoop(w, ptr)} })

\* Tree::insert_at::<I>: hang ptr as child I of parent, thread it, fix up.
InsertAt(w, I, ptr, parent) ==
    LET far == Nd(w, parent).order[I]
    IN Bind({
         Bind({
           Bind({
             IF HasCumulant THEN PropagateCumulant(w4, ptr) ELSE w4
             : w4 \in {IF Nd(w3, parent).parent # None
                       THEN FixInsert(w3, ptr) ELSE w3} })
           : w3 \in {SetOrder(SetChild(
                         IF far # None THEN SetOrder(w1, far, 1 - I, ptr)
                         ELSE [w1 EXCEPT !.m.range[I] = ptr],
                         parent, I, ptr), parent, I, ptr)} })
         : w1 \in {[w EXCEPT !.a.items[ptr].node.parent = parent,
                             !.a.items[ptr].node.order =
                                 [i \in 0..1 |-> IF i = I THEN far ELSE parent]]} })

\* PortAllocGuard::insert of a fresh node, seen from the writer.
AllocNode(w, node) ==
    Bind({ [w |-> [w EXCEPT !.a = r.a], index |-> r.index]
           : r \in {ArenaInsert(w.a, node)} })

\* A Here arm that keeps the old value.
InsertHereKeep(w, ptr, value) == [w |-> w, ret |-> FALSE]

\* The Here arm of TreeAllocGuard::insert: the node gets V::new(value), a
\* value whose cumulant is the default one.
InsertHere(w, ptr, value) ==
    [w |-> [w EXCEPT !.a.items[ptr].node.value = value,
                     !.a.items[ptr].node.cum = 0],
     ret |-> FALSE]

\* The arms of TreeAllocGuard::insert that allocate, s being the search result.
InsertNew(w, s, key, value) ==
    IF s.tag = "Empty"
    THEN Bind({
           [w |-> [r.w EXCEPT !.m = [root |-> r.index,
                                     range |-> Pair(r.index, r.index),
                                     black_height |-> 1]],
            ret |-> TRUE]
           : r \in {AllocNode(w, NewNode(key, value, Black))} })
    ELSE Bind({
           [w |-> InsertAt(r.w, IF s.tag = "LeftOf" THEN 0 ELSE 1, r.index, s.at),
            ret |-> TRUE]
           : r \in {AllocNode(w, NewNode(key, value, Red))} })

\* TreeAllocGuard::insert.  Returns the writer and the bool.
TreeInsert(w, key, value) ==
    Bind({
      IF s.tag = "Here" THEN InsertHere(w, s.at, value)
      ELSE InsertNew(w, s, key, value)
      : s \in {Search(w, w.m.root, key)} })

\* ----------------------------------------------------------------- remove
\* The helper::<I> of Tree::fix_remove: the removed black node was child I of
\* parent.  Returns the writer and the node the deficit moves to (or None).
FixRemoveHelper(w, I, parent) ==
    LET sibling0 == Nd(w, parent).children[1 - I]
        red == IsRed(w, sibling0)
        sibling1 == IF red THEN Nd(w, sibling0).children[I] ELSE sibling0
    IN Bind({
         LET nephews == Nd(w1, sibling1).children
             close == nephews[I]
             close_red == close # None /\ IsRed(w1, close)
             far_red == nephews[1 - I] # None /\ IsRed(w1, nephews[1 - I])
             sibling2 == IF close_red THEN close ELSE sibling1
         IN IF far_red \/ close_red
            THEN Bind({
                   Bind({
                     [w |-> Rotate(SetColor(w3, Nd(w3, sibling2).children[1 - I], Black),
                                   I, parent),
                      next |-> None]
                     : w3 \in {SetColor(SetColor(w2, sibling2, Nd(w2, parent).color),
                                        parent, Black)} })
                   : w2 \in {IF close_red
                             THEN Bind({
                                    IF HasCumulant
                                    THEN UpdateCumulant(UpdateCumulant(r, close), nephews[I])
                                    ELSE r
                                    : r \in {Rotate(SetColor(SetColor(w1, close, Black),
                                                             sibling1, Red),
                                                    1 - I, sibling1)} })
                             ELSE w1} })
            ELSE IF IsRed(w1, parent)
                 THEN [w |-> SetColor(SetColor(w1, sibling1, Red), parent, Black),
                       next |-> None]
                 ELSE [w |-> SetColor(w1, sibling1, Red), next |-> parent]
         : w1 \in {IF red
                   THEN Rotate(SetColor(SetColor(w, sibling0, Black), parent, Red),
                               I, parent)
                   ELSE w} })

\* The loop of Tree::fix_remove.
RECURSIVE FixRemoveLoop(_, _, _)
FixRemoveLoop(w, parent, is_right) ==
    Bind({
      IF h.next = None THEN h.w
      ELSE LET par == Nd(h.w, h.next).parent
           IN IF par # None
              THEN FixRemoveLoop(h.w, par, Nd(h.w, par).children[1] = h.next)
              ELSE [h.w EXCEPT !.m.black_height = @ - 1]
      : h \in {FixRemoveHelper(w, IF is_right THEN 1 ELSE 0, parent)} })

\* A fix_remove that unlinks the leaf and does not rebalance.
FixRemoveUnlinkOnly(w, ptr) ==
    LET parent == Nd(w, ptr).parent
    IN SetChild(w, parent, IF Nd(w, parent).children[1] = ptr THEN 1 ELSE 0, None)

\* Tree::fix_remove: unlink the black leaf ptr, then rebalance upwards.
FixRemove(w, ptr) ==
    LET parent == Nd(w, ptr).parent
        is_right == Nd(w, parent).children[1] = ptr
    IN FixRemoveLoop(SetChild(w, parent, IF is_right THEN 1 ELSE 0, None),
                     parent, is_right)

\* An unthreading that forgets the backward link.
UnthreadForwardOnly(w, prev, next) ==
    IF prev # None THEN SetOrder(w, prev, 1, next)
    ELSE [w EXCEPT !.m.range[0] = next]

\* The two matches on prev and next of Tree::remove_at: the neighbours of the
\* unlinked node are tied to each other, or the range end moves.
Unthread(w, prev, next) ==
    Bind({
      IF next # None THEN SetOrder(w1, next, 0, prev)
      ELSE [w1 EXCEPT !.m.range[1] = prev]
      : w1 \in {IF prev # None THEN SetOrder(w, prev, 1, next)
                ELSE [w EXCEPT !.m.range[0] = next]} })

\* swap(&mut node.key, ..) and swap(&mut node.value, ..) of Tree::remove_at;
\* the value carries its cumulant along.
SwapEntries(w, a, b) ==
    [w EXCEPT !.a.items[a].node.key = Nd(w, b).key,
              !.a.items[a].node.value = Nd(w, b).value,
              !.a.items[a].node.cum = Nd(w, b).cum,
              !.a.items[b].node.key = Nd(w, a).key,
              !.a.items[b].node.value = Nd(w, a).value,
              !.a.items[b].node.cum = Nd(w, a).cum]

\* Tree::remove_at once ptr has at most one child.
RemoveLeafOrSingle(w, ptr) ==
    LET children == Nd(w, ptr).children
        parent == Nd(w, ptr).parent
        color == Nd(w, ptr).color
        prev == Nd(w, ptr).order[0]
        next == Nd(w, ptr).order[1]
    IN IF children[0] = None /\ children[1] = None /\ parent = None
       THEN [w |-> [w EXCEPT !.m = DefaultBounds], ptr |-> ptr]
       ELSE Bind({
              [w |-> IF parent # None /\ HasCumulant
                     THEN PropagateCumulant(w4, parent) ELSE w4,
               ptr |-> ptr]
              : w4 \in {Unthread(
                   CASE children[0] # None ->
                          SetColor(Replace(w, ptr, children[0]), children[0], Black)
                     [] children[1] # None ->
                          SetColor(Replace(w, ptr, children[1]), children[1], Black)
                     [] OTHER ->
                          IF color = Red
                          THEN IF Nd(w, parent).children[0] = ptr
                               THEN SetChild(w, parent, 0, None)
                               ELSE SetChild(w, parent, 1, None)
                          ELSE FixRemove(w, ptr),
                   prev, next)} })

\* Tree::remove_at.  Returns the writer and the index of the unlinked node,
\* which is the successor's when the node had two children.
RemoveAt(w, ptr) ==
    IF Nd(w, ptr).children[0] # None /\ Nd(w, ptr).children[1] # None
    THEN RemoveLeafOrSingle(SwapEntries(w, ptr, Nd(w, ptr).order[1]),
                            Nd(w, ptr).order[1])
    ELSE RemoveLeafOrSingle(w, ptr)

\* The loop of clear: remove every node along the thread from ptr on.
RECURSIVE ClearLoop(_, _, _)
ClearLoop(a, ptr, fuel) ==
    IF ptr = None \/ fuel = 0 THEN a
    ELSE ClearLoop(ArenaRemove(a, ptr).a, a.items[ptr].node.order[1], fuel - 1)

\* clear of the alloc guard
TreeClear(w) ==
    [a |-> ClearLoop(w.a, w.m.range[0], Len(w.a.items) + 1),
     m |-> [w.m EXCEPT !.root = None, !.range = Pair(None, None)]]

\* Option<V::Into>
NoValue == [some |-> FALSE, value |-> 0]
SomeValue(v) == [some |-> TRUE, value |-> v]

\* A remove that frees the slot of the node and leaves the node linked.
TreeRemoveFreeOnly(w, key) ==
    Bind({
      IF s.tag = "Here"
      THEN Bind({ [w |-> [w EXCEPT !.a = d.a], ret |-> SomeValue(d.node.value)]
                  : d \in {ArenaRemove(w.a, s.at)} })
      ELSE [w |-> w, ret |-> NoValue]
      : s \in {Search(w, w.m.root, key)} })

\* TreeAllocGuard::remove.  Returns the writer and the Option.
TreeRemove(w, key) ==
    Bind({
      IF s.tag = "Here"
      THEN Bind({
             Bind({
               [w |-> [r.w EXCEPT !.a = d.a], ret |-> SomeValue(d.node.value)]
               : d \in {ArenaRemove(r.w.a, r.ptr)} })
             : r \in {RemoveAt(w, s.at)} })
      ELSE [w |-> w, ret |-> NoValue]
      : s \in {Search(w, w.m.root, key)} })

\* get and contains of the guards.
TreeGet(w, key) ==
    Bind({
      IF s.tag = "Here" THEN SomeValue(Nd(w, s.at).value) ELSE NoValue
      : s \in {Search(w, w.m.root, key)} })

TreeContains(w, key) == Search(w, w.m.root, key).tag = "Here"

\* TreeReadGuard::search_by: Tree::search_by from the root, the index it
\* returns mapped to the key of the node.
TreeSearchBy(w, cmp) ==
    Bind({
      IF s.tag = "Empty" THEN [tag |-> "Empty", key |-> None]
      ELSE [tag |-> s.tag, key |-> Nd(w, s.at).key]
      : s \in {SearchBy(w, w.m.root, cmp)} })

\* ------------------------------------------------------------------- join
\* Node::clear
ClearNode(w, ptr, color) ==
    [w EXCEPT !.a.items[ptr].node.parent = None,
              !.a.items[ptr].node.order = Pair(None, None),
              !.a.items[ptr].node.children = Pair(None, None),
              !.a.items[ptr].node.color = color]

\* insert_node of the write guards: link the existing node ptr into the tree.
\* ok is FALSE for Err(DuplicateKey).
InsertNode(w, ptr) ==
    Bind({
      CASE s.tag = "Here" -> [w |-> w, ok |-> FALSE]
        [] s.tag = "Empty" ->
             [w |-> ClearNode([w EXCEPT !.m = [root |-> ptr,
                                               range |-> Pair(ptr, ptr),
                                               black_height |-> 1]],
                              ptr, Black),
              ok |-> TRUE]
        [] s.tag = "LeftOf" ->
             [w |-> InsertAt(ClearNode(w, ptr, Red), 0, ptr, s.at), ok |-> TRUE]
        [] OTHER ->
             [w |-> InsertAt(ClearNode(w, ptr, Red), 1, ptr, s.at), ok |-> TRUE]
      : s \in {Search(w, w.m.root, Nd(w, ptr).key)} })

\* The helper::<I> of Tree::join_unchecked: pivot becomes a red node under
\* parent with this_child on side I and the root of `that` on the other side.
JoinHelper(w, I, parent, this_child, pivot, that_meta) ==
    LET this_meta == w.m
    IN Bind({
         Bind({
           Bind({
             IF HasCumulant THEN PropagateCumulant(w3, pivot) ELSE w3
             : w3 \in {IF parent # None
                       THEN IF Nd(w2, parent).parent # None
                            THEN FixInsert(w2, pivot) ELSE w2
                       ELSE SetColor([w2 EXCEPT !.m.root = pivot,
                                                !.m.black_height = @ + 1],
                                     pivot, Black)} })
           : w2 \in {[SetOrderOpt(
                        SetOrderOpt(
                          SetParentOpt(SetParentOpt(w1, this_child, pivot),
                                       that_meta.root, pivot),
                          this_meta.range[1 - I], 1 - I, pivot),
                        that_meta.range[I], I, pivot)
                      EXCEPT !.m.range[1 - I] = that_meta.range[1 - I]]} })
         : w1 \in {[w EXCEPT
                      !.a.items[pivot].node.color = Red,
                      !.a.items[pivot].node.parent = parent,
                      !.a.items[pivot].node.children =
                          [i \in 0..1 |-> IF i = I THEN this_child
                                          ELSE that_meta.root],
                      !.a.items[pivot].node.order =
                          [i \in 0..1 |-> IF i = I THEN this_meta.range[1 - I]
                                          ELSE that_meta.range[I]]]} })

\* The while loop of Tree::join_unchecked: walk down the side 1 - I of this
\* tree, one step per iteration, counting the black nodes left behind.
RECURSIVE JoinDescend(_, _, _, _)
JoinDescend(w, I, index, diff) ==
    IF diff = 0 THEN index
    ELSE JoinDescend(w, I,
                     IF Nd(w, index).children[1 - I] # None
                     THEN Nd(w, index).children[1 - I]
                     ELSE Nd(w, index).children[I],
                     IF IsBlack(w, index) THEN diff - 1 ELSE diff)

\* Tree::join_unchecked::<I>: `that` (its Bounds) goes to side 1 - I of this.
JoinUnchecked(w, I, pivot, that_meta) ==
    LET diff == w.m.black_height - that_meta.black_height
    IN IF diff = 0
       THEN JoinHelper(w, I, None, w.m.root, pivot, that_meta)
       ELSE Bind({
              JoinHelper(Replace(w, index, pivot), I, Nd(w, index).parent,
                         index, pivot, that_meta)
              : index \in {JoinDescend(w, I, w.m.root, diff)} })

\* min and max of the guards; only called on non-empty trees here.
TreeMin(a, m) == a.items[m.range[0]].node.key
TreeMax(a, m) == a.items[m.range[1]].node.key

\* A join that links the pivot into this tree and forgets the other tree.
JoinSelfOnly(a, self, pivot, other) ==
    Bind({ [a |-> r.w.a, m |-> r.w.m, ok |-> r.ok]
           : r \in {InsertNode([a |-> a, m |-> self], pivot)} })

\* A join that links the pivot into the first tree and leaves the second
\* tree out.
JoinWithoutOther(a, self, pivot, other) ==
    IF self.root = None
    THEN Bind({ [a |-> r.w.a, m |-> IF r.ok THEN r.w.m ELSE self, ok |-> r.ok]
                : r \in {InsertNode([a |-> a, m |-> other], pivot)} })
    ELSE Bind({ [a |-> r.w.a, m |-> r.w.m, ok |-> r.ok]
                : r \in {InsertNode([a |-> a, m |-> self], pivot)} })

\* Tree::join.  Result: the arena, the Bounds of the joined tree and ok;
\* ok is FALSE for Err, which hands both trees back unchanged.
Join(a, self, pivot, other) ==
    IF self.root = None
    THEN Bind({ [a |-> r.w.a, m |-> IF r.ok THEN r.w.m ELSE self, ok |-> r.ok]
                : r \in {InsertNode([a |-> a, m |-> other], pivot)} })
    ELSE IF other.root = None
    THEN Bind({ [a |-> r.w.a, m |-> r.w.m, ok |-> r.ok]
                : r \in {InsertNode([a |-> a, m |-> self], pivot)} })
    ELSE LET center == a.items[pivot].node.key
             taller == self.black_height >= other.black_height
         IN IF TreeMax(a, self) < center /\ center < TreeMin(a, other)
            THEN Bind({ [a |-> w.a, m |-> w.m, ok |-> TRUE]
                        : w \in {IF taller
                                 THEN JoinUnchecked([a |-> a, m |-> self], 0, pivot, other)
                                 ELSE JoinUnchecked([a |-> a, m |-> other], 1, pivot, self)} })
            ELSE IF TreeMax(a, other) < center /\ center < TreeMin(a, self)
            THEN Bind({ [a |-> w.a, m |-> w.m, ok |-> TRUE]
                        : w \in {IF taller
                                 THEN JoinUnchecked([a |-> a, m |-> self], 1, pivot, other)
                                 ELSE JoinUnchecked([a |-> a, m |-> other], 0, pivot, self)} })
            ELSE [a |-> a, m |-> self, ok |-> FALSE]

\* ------------------------------------------------------------------ split
\* One half of Tree::split_at_root: the Bounds of the subtree on side I of
\* the old root, given the old root's children and order.  Returns the
\* writer (whose m is ignored) and the Bounds.
SplitSide(w, I, children, order) ==
    IF children[I] = None THEN [w |-> w, m |-> DefaultBounds]
    ELSE Bind({
           [w |-> IF IsRed(w1, children[I]) THEN SetColor(w1, children[I], Black)
                  ELSE w1,
            m |-> [root |-> children[I],
                   range |-> [i \in 0..1 |-> IF i = 1 - I THEN order[I]
                                             ELSE w.m.range[i]],
                   black_height |-> IF IsRed(w1, children[I])
                                    THEN w.m.black_height
                                    ELSE w.m.black_height - 1]]
           : w1 \in {SetParent(SetOrderOpt(w, order[I], 1 - I, None),
                               children[I], None)} })

\* A split result: the arena, the Bounds of the two trees and the pivot node.
SplitResult(a, left, pivot, right) ==
    [a |-> a, left |-> left, pivot |-> pivot, right |-> right, ok |-> TRUE]

\* Tree::split_at_root
SplitAtRoot(a, m) ==
    IF m.root = None THEN SplitResult(a, m, None, DefaultBounds)
    ELSE LET index == m.root
             children == a.items[index].node.children
             order == a.items[index].node.order
         IN Bind({
              Bind({
                SplitResult(r.w.a, l.m, index, r.m)
                : r \in {SplitSide([a |-> l.w.a, m |-> m], 1, children, order)} })
              : l \in {SplitSide([a |-> [a EXCEPT
                                          !.items[index].node.children = Pair(None, None),
                                          !.items[index].node.order = Pair(None, None)],
                                   m |-> m],
                                 0, children, order)} })

\* A split at an end of the range that hands the halves back swapped.
SplitOffEndSwapped(a, m, I) ==
    Bind({
      IF I = 0 THEN SplitResult(r.w.a, r.w.m, r.ptr, DefaultBounds)
      ELSE SplitResult(r.w.a, DefaultBounds, r.ptr, r.w.m)
      : r \in {RemoveAt([a |-> a, m |-> m], m.range[I])} })

\* remove_node of the write guards, as a split result with an empty side.
SplitOffEnd(a, m, I) ==
    Bind({
      IF I = 0 THEN SplitResult(r.w.a, DefaultBounds, r.ptr, r.w.m)
      ELSE SplitResult(r.w.a, r.w.m, r.ptr, DefaultBounds)
      : r \in {RemoveAt([a |-> a, m |-> m], m.range[I])} })

\* Tree::split_node.  ok turns FALSE when a join the code unwraps unchecked
\* returned Err.
RECURSIVE SplitNode(_, _, _)
SplitNode(a, m, key) ==
    IF m.root = None THEN SplitResult(a, m, None, DefaultBounds)
    ELSE IF Cmp(TreeMin(a, m), key) = "Greater"
    THEN SplitResult(a, DefaultBounds, None, m)
    ELSE IF Cmp(TreeMin(a, m), key) = "Equal" THEN SplitOffEnd(a, m, 0)
    ELSE IF Cmp(TreeMax(a, m), key) = "Less"
    THEN SplitResult(a, m, None, DefaultBounds)
    ELSE IF Cmp(TreeMax(a, m), key) = "Equal" THEN SplitOffEnd(a, m, 1)
    ELSE LET root_cmp == Cmp(a.items[m.root].node.key, key)
             is_single == m.range[0] # None /\ m.range[0] = m.range[1]
         IN IF root_cmp = "Equal" THEN SplitAtRoot(a, m)
            ELSE IF is_single
            THEN IF root_cmp = "Less" THEN SplitResult(a, m, None, DefaultBounds)
                 ELSE SplitResult(a, DefaultBounds, None, m)
            ELSE Bind({
                   IF root_cmp = "Greater"
                   THEN Bind({
                          Bind({
                            [a |-> j.a, left |-> t.left, pivot |-> t.pivot,
                             right |-> j.m, ok |-> t.ok /\ j.ok]
                            : j \in {Join(t.a, t.right, s.pivot, s.right)} })
                          : t \in {SplitNode(s.a, s.left, key)} })
                   ELSE Bind({
                          Bind({
                            [a |-> j.a, left |-> j.m, pivot |-> t.pivot,
                             right |-> t.right, ok |-> t.ok /\ j.ok]
                            : j \in {Join(t.a, s.left, s.pivot, t.left)} })
                          : t \in {SplitNode(s.a, s.right, key)} })
                   : s \in {SplitAtRoot(a, m)} })

\* Tree::split: split_node, then the pivot node is freed and its value
\* returned.
TreeSplit(a, m, key) ==
    Bind({
      IF s.pivot = None
      THEN [a |-> s.a, left |-> s.left, value |-> NoValue, right |-> s.right,
            ok |-> s.ok]
      ELSE Bind({
             [a |-> d.a, left |-> s.left, value |-> SomeValue(d.node.value),
              right |-> s.right, ok |-> s.ok]
             : d \in {ArenaRemove(s.a, s.pivot)} })
      : s \in {SplitNode(a, m, key)} })

\* ------------------------------------------------------------------ union
\* len_estimate of the guards, its variant only.
LenEstimate(m) ==
    IF m.range = Pair(None, None) THEN "Empty"
    ELSE IF m.range[0] # None /\ m.range[1] # None /\ m.range[0] = m.range[1]
    THEN "Single"
    ELSE "More"

\* What union_disjoint hands back: the arena, the Bounds of the returned tree,
\* ok (FALSE for Err(Overlapping)) and ub, TRUE when an Err was unwrapped
\* unchecked on the way.
UnionResult(a, m, ok, ub) == [a |-> a, m |-> m, ok |-> ok, ub |-> ub]

\* The Single arms of Tree::union_disjoint: the only node of one tree is
\* linked into the other and the Result is unwrapped unchecked.
DisjointSingle(a, into, root) ==
    Bind({ UnionResult(r.w.a, r.w.m, TRUE, ~r.ok)
           : r \in {InsertNode([a |-> a, m |-> into], root)} })

\* The tail of Tree::union_disjoint: the pivot leaves this tree and joins
\* the two.
DisjointJoin(a, self, other, pivot) ==
    Bind({
      Bind({ UnionResult(j.a, j.m, TRUE, ~j.ok)
             : j \in {Join(r.w.a, r.w.m, r.ptr, other)} })
      : r \in {RemoveAt([a |-> a, m |-> self], pivot)} })

\* A union_disjoint that takes the pivot out of this tree before it tests
\* the ranges.
UnionDisjointRemoveFirst(a, self, other) ==
    IF LenEstimate(self) = "Empty" THEN UnionResult(a, other, TRUE, FALSE)
    ELSE IF LenEstimate(self) = "Single" THEN DisjointSingle(a, other, self.root)
    ELSE IF LenEstimate(other) = "Empty" THEN UnionResult(a, self, TRUE, FALSE)
    ELSE IF LenEstimate(other) = "Single" THEN DisjointSingle(a, self, other.root)
    ELSE Bind({
           IF TreeMax(a, self) < TreeMin(a, other) \/ TreeMax(a, other) < TreeMin(a, self)
           THEN DisjointJoin(a, self, other, pivot)
           ELSE Bind({ UnionResult(r.w.a, r.w.m, FALSE, FALSE)
                       : r \in {RemoveAt([a |-> a, m |-> self], pivot)} })
           : pivot \in {IF TreeMin(a, self) < TreeMin(a, other)
                        THEN self.range[1] ELSE self.range[0]} })

\* Tree::union_disjoint
UnionDisjoint(a, self, other) ==
    IF LenEstimate(self) = "Empty" THEN UnionResult(a, other, TRUE, FALSE)
    ELSE IF LenEstimate(self) = "Single" THEN DisjointSingle(a, other, self.root)
    ELSE IF LenEstimate(other) = "Empty" THEN UnionResult(a, self, TRUE, FALSE)
    ELSE IF LenEstimate(other) = "Single" THEN DisjointSingle(a, self, other.root)
    ELSE IF TreeMin(a, self) < TreeMin(a, other)
    THEN IF TreeMax(a, self) >= TreeMin(a, other)
         THEN UnionResult(a, self, FALSE, FALSE)
         ELSE DisjointJoin(a, self, other, self.range[1])
    ELSE IF TreeMax(a, other) >= TreeMin(a, self)
         THEN UnionResult(a, self, FALSE, FALSE)
         ELSE DisjointJoin(a, self, other, self.range[0])

\* The merge function the caller passes: the new value of `existing`.  It
\* keeps both arguments apart, so that who was which can be read back.
MergeFn(existing, incoming) == existing * 100 + incoming

\* One call of the merge function.
Call(key, existing, incoming) == <<key, existing, incoming>>

\* RwLock::write on the meta lock of a port, as Port::write takes it: the
\* lock is not reentrant, the caller gets it only when nobody holds it.
PortWrite(meta_lock) == IF meta_lock = "free" THEN "acquired" ELSE "waits"

\* Drop of ValueMut for node ptr while the meta lock of its tree is in state
\* meta_lock: it takes the write guard of the port and then propagates the
\* cumulants; hung is TRUE when the guard is never granted.
ValueMutDrop(w, ptr, meta_lock) ==
    IF PortWrite(meta_lock) = "waits" THEN [w |-> w, hung |-> TRUE]
    ELSE [w |-> IF HasCumulant THEN PropagateCumulant(w, ptr) ELSE w,
          hung |-> FALSE]

\* The state in which Port::read, Port::write and Port::alloc leave the meta
\* lock of their port while the guard they return is alive.
MetaLockOf(guard) == IF guard = "read" THEN "read" ELSE "write"

\* get_mut of the write guards: the ValueMut of the node with the key, which
\* keeps the node's index (NoValue when the key is absent).
GetMut(w, key) ==
    Bind({ IF s.tag = "Here" THEN SomeValue(s.at) ELSE NoValue
           : s \in {Search(w, w.m.root, key)} })

\* What union_merge hands back: the arena, the Bounds of the returned tree,
\* the calls of the merge function so far, hung (the call never returns)
\* and ub.
MergeResult(a, m, calls, hung, ub) ==
    [a |-> a, m |-> m, calls |-> calls, hung |-> hung, ub |-> ub]

\* The Single arms of Tree::union_merge under the alloc guard of `into`:
\* the only node of one tree is linked into the other; on DuplicateKey it is
\* freed and merged into the value found by get_mut, whose ValueMut is
\* dropped while the alloc guard still holds the meta lock for writing.
MergeSingle(a, into, root, calls) ==
    Bind({
      IF r.ok THEN MergeResult(r.w.a, r.w.m, calls, FALSE, FALSE)
      ELSE Bind({
             Bind({
               Bind({
                 MergeResult(v.w.a, v.w.m,
                             Append(calls, Call(d.node.key, Nd([a |-> d.a, m |-> into], at).value,
                                                d.node.value)),
                             v.hung, FALSE)
                 : v \in {ValueMutDrop([a |-> [d.a EXCEPT !.items[at].node.value =
                                                   MergeFn(@, d.node.value)],
                                        m |-> into],
                                       at, "write")} })
               : at \in {Search([a |-> d.a, m |-> into], into.root, d.node.key).at} })
             : d \in {ArenaRemove(a, root)} })
      : r \in {InsertNode([a |-> a, m |-> into], root)} })

\* The `if let Some(pivot)` of Tree::union_merge: the node of this tree with
\* the key of other_root is freed and merged into other_root's value.
MergePivot(a, pivot, other_root, calls) ==
    IF pivot = None THEN [a |-> a, calls |-> calls]
    ELSE Bind({
           [a |-> [d.a EXCEPT !.items[other_root].node.value =
                       MergeFn(@, d.node.value)],
            calls |-> Append(calls, Call(d.node.key, d.a.items[other_root].node.value,
                                         d.node.value))]
           : d \in {ArenaRemove(a, pivot)} })

\* The last line of Tree::union_merge: the two merged halves are joined
\* around other_root.
MergeJoin(l, r, other_root, ub) ==
    Bind({ MergeResult(j.a, j.m, r.calls, FALSE, ub \/ l.ub \/ r.ub \/ ~j.ok)
           : j \in {Join(r.a, l.m, other_root, r.m)} })

\* Tree::union_merge
RECURSIVE UnionMerge(_, _, _, _)
UnionMerge(a, self, other, calls) ==
    IF LenEstimate(self) = "Empty" THEN MergeResult(a, other, calls, FALSE, FALSE)
    ELSE IF LenEstimate(self) = "Single" THEN MergeSingle(a, other, self.root, calls)
    ELSE IF LenEstimate(other) = "Empty" THEN MergeResult(a, self, calls, FALSE, FALSE)
    ELSE IF LenEstimate(other) = "Single" THEN MergeSingle(a, self, other.root, calls)
    ELSE Bind({
           Bind({
             Bind({
               Bind({
                 IF l.hung THEN l
                 ELSE Bind({
                        IF r.hung THEN r ELSE MergeJoin(l, r, s.pivot, ~t.ok)
                        : r \in {UnionMerge(l.a, t.right, s.right, l.calls)} })
                 : l \in {UnionMerge(p.a, t.left, s.left, p.calls)} })
               : p \in {MergePivot(t.a, t.pivot, s.pivot, calls)} })
             : t \in {SplitNode(s.a, self, s.a.items[s.pivot].node.key)} })
           : s \in {SplitAtRoot(a, other)} })

\* ----------------------------------------------------------- observation
\* The nodes below ptr in symmetric order (left subtree, node, right subtree).
RECURSIVE InOrder(_, _)
InOrder(w, ptr) ==
    IF ptr = None THEN << >>
    ELSE InOrder(w, Nd(w, ptr).children[0]) \o <<ptr>>
             \o InOrder(w, Nd(w, ptr).children[1])

\* The nodes met from ptr along order[I]; fuel stops a walk that cycles.
RECURSIVE Thread(_, _, _, _)
Thread(w, ptr, I, fuel) ==
    IF ptr = None \/ fuel = 0 THEN << >>
    ELSE <<ptr>> \o Thread(w, Nd(w, ptr).order[I], I, fuel - 1)

Reverse(s) == [i \in 1..Len(s) |-> s[Len(s) + 1 - i]]

KeysOf(w, s) == [i \in 1..Len(s) |-> Nd(w, s[i]).key]
EntriesOf(w, s) == [i \in 1..Len(s) |-> <<Nd(w, s[i]).key, Nd(w, s[i]).value>>]

StrictlyIncreasing(s) == \A i \in 1..(Len(s) - 1) : s[i] < s[i + 1]

\* Iterator::next of Iter, run to exhaustion: the entries from front to back.
RECURSIVE IterNext(_, _, _, _)
IterNext(w, front, back, fuel) ==
    IF front = None \/ fuel = 0 THEN << >>
    ELSE <<<<Nd(w, front).key, Nd(w, front).value>>>>
           \o (IF front = back THEN << >>
               ELSE IterNext(w, Nd(w, front).order[1], back, fuel - 1))

\* ------------------------------------------------------ bulk construction
\* !color
NotColor(color) == IF color = Red THEN Black ELSE Red

\* usize::BITS - len.leading_zeros()
RECURSIVE BitLength(_)
BitLength(len) == IF len = 0 THEN 0 ELSE 1 + BitLength(len \div 2)

\* A node with its parent set, as build_tree makes it before port.insert.
BuildNode(item, parent, color) ==
    [NewNode(item[1], item[2], color) EXCEPT !.parent = parent]

\* The tail of build_tree: link the pivot this to the two subtrees l and r
\* and to its neighbours in the thread.
BuildLink(a, this, l, r) ==
    Bind({
      Bind({
        IF r.min = None THEN a2
        ELSE [a2 EXCEPT !.items[r.min].node.order[0] = this]
        : a2 \in {IF l.max = None THEN a1
                  ELSE [a1 EXCEPT !.items[l.max].node.order[1] = this]} })
      : a1 \in {[a EXCEPT !.items[this].node.children = Pair(l.root, r.root),
                          !.items[this].node.order = Pair(l.max, r.min)]} })

\* build_tree inside from_sorted_slice_unchecked: the subtree of items under
\* parent, its root of the given colour; returns [min, root, max].
RECURSIVE BuildTree(_, _, _, _)
BuildTree(a, items, parent, color) ==
    IF Len(items) = 0
    THEN [a |-> a, min |-> None, root |-> None, max |-> None]
    ELSE IF Len(items) = 1
    THEN Bind({ [a |-> p.a, min |-> p.index, root |-> p.index, max |-> p.index]
                : p \in {ArenaInsert(a, BuildNode(items[1], parent, color))} })
    ELSE Bind({
           Bind({
             Bind({
               Bind({
                 [a |-> BuildLink(r.a, p.index, l, r),
                  min |-> IF pivot = 0 THEN p.index ELSE l.min,
                  root |-> p.index,
                  max |-> IF pivot = Len(items) - 1 THEN p.index ELSE r.max]
                 : r \in {BuildTree(l.a, SubSeq(items, pivot + 2, Len(items)),
                                    p.index, NotColor(color))} })
               : l \in {BuildTree(p.a, SubSeq(items, 1, pivot), p.index,
                                  NotColor(color))} })
             : p \in {ArenaInsert(a, BuildNode(items[pivot + 1], parent, color))} })
           : pivot \in {Len(items) \div 2} })

\* The colour build_tree starts with, by the parity of the height.
RootColor(height) == IF height % 2 = 0 THEN Black ELSE Red

\* A start colour with the parity the other way round.
FromSortedSliceOddBlack(w, items) ==
    IF Len(items) = 0 THEN w
    ELSE Bind({
           Bind({
             [a |-> IF b.a.items[b.root].node.color = Red
                    THEN [b.a EXCEPT !.items[b.root].node.color = Black]
                    ELSE b.a,
              m |-> [root |-> b.root, range |-> Pair(b.min, b.max),
                     black_height |->
                        (height \div 2)
                        + (IF b.a.items[b.root].node.color = Red THEN 1 ELSE 0)]]
             : b \in {BuildTree(w.a, items, None, NotColor(RootColor(height)))} })
           : height \in {BitLength(Len(items))} })

\* Tree::from_sorted_slice_unchecked on a port whose meta is the default.
FromSortedSliceUnchecked(w, items) ==
    IF Len(items) = 0 THEN w
    ELSE Bind({
           Bind({
             [a |-> IF b.a.items[b.root].node.color = Red
                    THEN [b.a EXCEPT !.items[b.root].node.color = Black]
                    ELSE b.a,
              m |-> [root |-> b.root, range |-> Pair(b.min, b.max),
                     black_height |->
                        (height \div 2)
                        + (IF b.a.items[b.root].node.color = Red THEN 1 ELSE 0)]]
             : b \in {BuildTree(w.a, items, None, RootColor(height))} })
           : height \in {BitLength(Len(items))} })

\* What the caller of iter_mut does to a value it chooses to change.
MutFn(v) == v * 2

\* Iterator::next of IterMut, run from front to back by a caller that changes
\* the values of the keys in S through the V::Mut it is handed.
RECURSIVE IterMutNext(_, _, _, _, _)
IterMutNext(w, front, back, S, fuel) ==
    IF front = None \/ fuel = 0 THEN w
    ELSE IF front = back
    THEN (IF Nd(w, front).key \in S
          THEN [w EXCEPT !.a.items[front].node.value = MutFn(@)] ELSE w)
    ELSE IterMutNext(IF Nd(w, front).key \in S
                     THEN [w EXCEPT !.a.items[front].node.value = MutFn(@)] ELSE w,
                     Nd(w, front).order[1], back, S, fuel - 1)

\* Drop of IterMut
IterMutDrop(w) ==
    IF HasCumulant /\ w.m.root # None THEN UpdateCumulants(w, w.m.root) ELSE w

\* iter() of the guards: front and back are the two ends of the range.
TreeIter(w) == IterNext(w, w.m.range[0], w.m.range[1], Len(w.a.items) + 1)

\* validate_rb_node's height: black nodes on every path below ptr, -1 when
\* two paths disagree.
RECURSIVE BlackCount(_, _)
BlackCount(w, ptr) ==
    IF ptr = None THEN 0
    ELSE Bind({
           IF l < 0 \/ r < 0 \/ l # r THEN -1
           ELSE l + (IF IsBlack(w, ptr) THEN 1 ELSE 0)
           : l \in {BlackCount(w, Nd(w, ptr).children[0])},
             r \in {BlackCount(w, Nd(w, ptr).children[1])} })

RedRed(w, ptr) ==
    /\ IsRed(w, ptr)
    /\ \E I \in 0..1 : Nd(w, ptr).children[I] # None /\ IsRed(w, Nd(w, ptr).children[I])

Range(s) == {s[i] : i \in 1..Len(s)}

NodesOf(w) == Bind({ Range(s) : s \in {InOrder(w, w.m.root)} })

\* P1: black root, no red node with a red child, equal black counts that
\* match the tracked black_height (0 for the empty tree).
P1(w) ==
    IF w.m.root = None THEN w.m.black_height = 0
    ELSE /\ IsBlack(w, w.m.root)
         /\ \A n \in NodesOf(w) : ~RedRed(w, n)
         /\ BlackCount(w, w.m.root) = w.m.black_height

\* P2: binary-search-tree order.
P2(w) == StrictlyIncreasing(KeysOf(w, InOrder(w, w.m.root)))

\* P3: the thread visits the nodes of the tree in key order, both ways.
P3(w) ==
    LET nodes == InOrder(w, w.m.root)
        fuel == Len(w.a.items) + 1
    IN /\ Thread(w, w.m.range[0], 1, fuel) = nodes
       /\ Thread(w, w.m.range[1], 0, fuel) = Reverse(nodes)
       /\ StrictlyIncreasing(KeysOf(w, Thread(w, w.m.range[0], 1, fuel)))

\* P4: the range is empty exactly when the tree is, else its two ends are
\* the nodes of the least and the greatest key.
P4(w) ==
    LET nodes == InOrder(w, w.m.root)
    IN /\ (w.m.range = Pair(None, None)) <=> (w.m.root = None)
       /\ w.m.root # None =>
            /\ w.m.range[0] # None /\ w.m.range[1] # None
            /\ \A n \in NodesOf(w) :
                 /\ Nd(w, w.m.range[0]).key <= Nd(w, n).key
                 /\ Nd(w, n).key <= Nd(w, w.m.range[1]).key
            /\ w.m.range[0] \in NodesOf(w) /\ w.m.range[1] \in NodesOf(w)

\* Invariant I7: the cumulant of every node of the tree is the fold (the sum,
\* for WithSum) of its local value and the cumulants of its two children.
CumulantsOk(w) ==
    \A n \in NodesOf(w) :
        Nd(w, n).cum = Nd(w, n).value + CumOf(w, Nd(w, n).children[0])
                                      + CumOf(w, Nd(w, n).children[1])

\* The fold over all values of a reference map.
RECURSIVE RefSum(_)
RefSum(m) ==
    IF DOMAIN m = {} THEN 0
    ELSE Bind({ m[k] + RefSum([x \in DOMAIN m \ {k} |-> m[x]])
                : k \in {CHOOSE x \in DOMAIN m : TRUE} })

\* ---------------------------------------------------------------- queries
\* SearchAction::new: the three bits packed into one byte.
SearchActionNew(search_left, search_right, is_match) ==
    (IF search_left THEN 1 ELSE 0) + (IF search_right THEN 2 ELSE 0)
                                   + (IF is_match THEN 4 ELSE 0)
ActionLeft(action) == action % 2 # 0
ActionRight(action) == (action \div 2) % 2 # 0
ActionMatch(action) == (action \div 4) % 2 # 0

\* The closure handed to filter: the value of an entry spells the action,
\* |_, v| SearchAction::new(v & 1 != 0, v & 2 != 0, v & 4 != 0).
FilterAction(key, value) ==
    SearchActionNew(value % 2 = 1, (value \div 2) % 2 = 1, (value \div 4) % 2 = 1)

\* TreeReadGuard::filter: the stack holds the root, if there is one.
FilterNew(w) == IF w.m.root # None THEN <<w.m.root>> ELSE << >>

\* A step that pushes the right child whatever the action says.
FilterStepAlwaysRight(w, stack) ==
    Bind({
      Bind({
        [stack |-> (IF node.children[0] # None /\ ActionLeft(action)
                    THEN <<node.children[0]>> ELSE << >>)
                   \o (IF node.children[1] # None
                       THEN <<node.children[1]>> ELSE << >>),
         at |-> stack[Len(stack)],
         item |-> IF ActionMatch(action)
                  THEN [some |-> TRUE, key |-> node.key, value |-> node.value]
                  ELSE [some |-> FALSE, key |-> 0, value |-> 0]]
        : action \in {FilterAction(node.key, node.value)} })
      : node \in {Nd(w, stack[Len(stack)])} })

\* Filter::step on a stack that is not empty: the node popped from the back,
\* its children pushed as the action allows, and the item if it matches.
\* The stack returned is the part pushed, to be put on the rest.
FilterStep(w, stack) ==
    Bind({
      Bind({
        [stack |-> (IF node.children[0] # None /\ ActionLeft(action)
                    THEN <<node.children[0]>> ELSE << >>)
                   \o (IF node.children[1] # None /\ ActionRight(action)
                       THEN <<node.children[1]>> ELSE << >>),
         at |-> stack[Len(stack)],
         item |-> IF ActionMatch(action)
                  THEN [some |-> TRUE, key |-> node.key, value |-> node.value]
                  ELSE [some |-> FALSE, key |-> 0, value |-> 0]]
        : action \in {FilterAction(node.key, node.value)} })
      : node \in {Nd(w, stack[Len(stack)])} })

\* Filter::next called until it returns None: every step taken, in order.
RECURSIVE FilterCollect(_, _, _, _)
FilterCollect(w, stack, steps, fuel) ==
    IF stack = << >> \/ fuel = 0 THEN steps
    ELSE Bind({
           FilterCollect(w, SubSeq(stack, 1, Len(stack) - 1) \o st.stack,
                         Append(steps, [at |-> st.at, item |-> st.item]),
                         fuel - 1)
           : st \in {FilterStep(w, stack)} })

\* Tree::closest::<I, INCLUSIVE>: the node an end of a range starts from.
Closest(w, I, INCLUSIVE, ptr, key) ==
    Bind({
      IF s.tag = "Empty" THEN None
      ELSE IF s.tag = "Here"
           THEN (IF INCLUSIVE THEN Nd(w, s.at).order[I] ELSE s.at)
      ELSE IF s.tag = "LeftOf"
           THEN (IF I = 0 THEN s.at ELSE Nd(w, s.at).order[1])
      ELSE (IF I = 1 THEN s.at ELSE Nd(w, s.at).order[0])
      : s \in {Search(w, ptr, key)} })

\* Option::or_else
OrElse(opt, other) == IF opt # None THEN opt ELSE other

\* TreeReadGuard::iter_range::<LI, RI>(min, max), collected.
TreeIterRange(w, LI, RI, min, max) ==
    IterNext(w, OrElse(Closest(w, 0, LI, w.m.root, min), w.m.range[0]),
                OrElse(Closest(w, 1, RI, w.m.root, max), w.m.range[1]),
                Len(w.a.items) + 1)

\* TreeReadGuard::cursor_at: the node of the key, or the one before it.
CursorAt(w, key) ==
    Bind({
      IF s.tag = "Here" THEN s.at
      ELSE IF s.tag = "LeftOf" THEN Nd(w, s.at).order[0]
      ELSE IF s.tag = "RightOf" THEN s.at
      ELSE None
      : s \in {Search(w, w.m.root, key)} })

\* A move that snaps from None to the end it has just left.
MoveOrderSameEnd(w, I, current) ==
    IF current = None THEN w.m.range[I] ELSE Nd(w, current).order[I]

\* CursorMove::move_order::<I>: the new position of the cursor.
MoveOrder(w, I, current) ==
    IF current = None THEN w.m.range[1 - I] ELSE Nd(w, current).order[I]

\* CursorRead::key
CursorKey(w, current) ==
    IF current = None THEN NoValue ELSE SomeValue(Nd(w, current).key)

\* move_order::<I> called `steps` times: the key read after every move.
RECURSIVE CursorWalk(_, _, _, _)
CursorWalk(w, I, current, steps) ==
    IF steps = 0 THEN << >>
    ELSE Bind({
           <<CursorKey(w, next)>> \o CursorWalk(w, I, next, steps - 1)
           : next \in {MoveOrder(w, I, current)} })

\* ---------------------------------------------------------- reference map
\* The reference ordered map: a function from the present keys to values.
RefGet(m, k) == IF k \in DOMAIN m THEN SomeValue(m[k]) ELSE NoValue
RefPut(m, k, v) == [x \in DOMAIN m \cup {k} |-> IF x = k THEN v ELSE m[x]]
RefDel(m, k) == [x \in DOMAIN m \ {k} |-> m[x]]
EmptyMap == [x \in {} |-> 0]

\* The entries of a reference map in key order.
RECURSIVE RefEntries(_)
RefEntries(m) ==
    IF DOMAIN m = {} THEN << >>
    ELSE LET k == CHOOSE x \in DOMAIN m : \A y \in DOMAIN m : x <= y
         IN <<<<k, m[k]>>>> \o RefEntries(RefDel(m, k))

\* ------------------------------------------------------------------ state
VARIABLES
    arena,      \* the Arena shared by the trees of one forest
    ta,         \* Bounds of tree A
    tb,         \* Bounds of tree B
    res,        \* what the last call was and what it returned
    refmap,     \* reference map of A (of A before a split or union)
    refmapB,    \* reference map of B
    mode,       \* which calls the client makes
    sync        \* the locks of the forest's ports and what each thread runs

vars == <<arena, ta, tb, res, refmap, refmapB, mode, has_cumulant, sync>>

WA == [a |-> arena, m |-> ta]
WB == [a |-> arena, m |-> tb]

NoCall == [op |-> "none", key |-> 0, value |-> 0, ok |-> TRUE,
           ret |-> NoValue, before |-> NoValue, calls |-> << >>,
           ub |-> FALSE, hung |-> FALSE]

Max(S) == IF S = {} THEN 0 ELSE CHOOSE x \in S : \A y \in S : y <= x

\* ------------------------------------------------------------------ locks
Threads == 1..NThreads
Trees == 1..NTrees

\* No thread runs anything and every lock of every port is free.  ar counts
\* the shared holds of the arena lock per thread, aup is the holder of its
\* upgradable slot, aw the owner of its writer bit; mr and mw are the same
\* for the meta lock of each port; spare is the free capacity of the arena.
IdleSync ==
    [ar |-> [th \in Threads |-> 0], aup |-> 0, aw |-> 0,
     mr |-> [t \in Trees |-> [th \in Threads |-> 0]],
     mw |-> [t \in Trees |-> 0],
     prog |-> [th \in Threads |-> << >>],
     guards |-> {},
     spare |-> 0]

\* One step of a thread: lock call i for the guard of kind g on port t.
Ins(i, t, g) == [i |-> i, t |-> t, g |-> g]

\* Port::read, Port::write and Port::alloc: the arena lock, then the meta
\* lock.  A write lock takes the writer bit and then waits for the readers.
ReadGuard(t) == <<Ins("arena_read", t, "read"), Ins("meta_read", t, "read")>>
\* A Port::write that takes the upgradable slot of the arena lock.
WriteGuardUpgradable(t) ==
    <<Ins("arena_upgradable", t, "write"), Ins("meta_write", t, "write"),
      Ins("meta_wait", t, "write")>>

WriteGuard(t) ==
    <<Ins("arena_read", t, "write"), Ins("meta_write", t, "write"),
      Ins("meta_wait", t, "write")>>
AllocGuard(t) ==
    <<Ins("arena_upgradable", t, "alloc"), Ins("meta_write", t, "alloc"),
      Ins("meta_wait", t, "alloc")>>

\* Drop of the three guards: the fields in declaration order, arena first.
DropRead(t) == <<Ins("drop_arena_read", t, "read"), Ins("drop_meta_read", t, "read")>>
DropWrite(t) == <<Ins("drop_arena_read", t, "write"), Ins("drop_meta_write", t, "write")>>
DropAlloc(t) ==
    <<Ins("drop_arena_upgradable", t, "alloc"), Ins("drop_meta_write", t, "alloc")>>

\* PortAllocGuard::insert when the arena is full: with_upgraded(reserve).
WithUpgraded(t) ==
    <<Ins("upgrade", t, "alloc"), Ins("upgrade_wait", t, "alloc"),
      Ins("reserve", t, "alloc")>>

\* tree.read(), some reads, drop of the guard
OpRead(t) == ReadGuard(t) \o DropRead(t)

\* tree.write(), some writes, drop of the guard
OpWrite(t) == WriteGuard(t) \o DropWrite(t)

\* tree.alloc().insert(key, value) of a new key, drop of the guard
OpInsert(t) == AllocGuard(t) \o <<Ins("insert", t, "alloc")>> \o DropAlloc(t)

\* tree.alloc().remove(key) of a present key, drop of the guard
OpRemove(t) == AllocGuard(t) \o <<Ins("remove", t, "alloc")>> \o DropAlloc(t)

\* Tree::join with both trees non-empty and self the taller one: each is
\* read for is_empty, then both are held for writing.
OpJoin(a, b) ==
    ReadGuard(a) \o DropRead(a) \o ReadGuard(b) \o DropRead(b)
    \o WriteGuard(a) \o WriteGuard(b) \o DropWrite(b) \o DropWrite(a)

\* Tree::join with self empty: other is written under the read guard of self.
OpJoinEmpty(a, b) == ReadGuard(a) \o WriteGuard(b) \o DropWrite(b) \o DropRead(a)

\* Tree::union_disjoint of two trees of several nodes: both are read for
\* len_estimate, the pivot is unlinked under write(self) and read(other),
\* then join.
OpUnionDisjoint(a, b) ==
    ReadGuard(a) \o DropRead(a) \o ReadGuard(b) \o DropRead(b)
    \o WriteGuard(a) \o ReadGuard(b) \o DropWrite(a) \o DropRead(b)
    \o OpJoin(a, b)

\* Tree::split at the key of the root: split_node under the write guard, then
\* the pivot node is removed under the alloc guard.
OpSplit(t) ==
    WriteGuard(t) \o DropWrite(t)
    \o AllocGuard(t) \o <<Ins("remove", t, "alloc")>> \o DropAlloc(t)

\* Two different trees of the forest.
TreePairs == {p \in Trees \X Trees : p[1] # p[2]}

\* The operations that take one guard at a time on one port.
PortOps ==
    {OpRead(t) : t \in Trees} \cup {OpWrite(t) : t \in Trees}
    \cup {OpInsert(t) : t \in Trees} \cup {OpRemove(t) : t \in Trees}

\* The whole operations a thread may run.
Ops ==
    PortOps
    \cup {OpSplit(t) : t \in Trees}
    \cup {OpJoin(p[1], p[2]) : p \in TreePairs}
    \cup {OpJoinEmpty(p[1], p[2]) : p \in TreePairs}
    \cup {OpUnionDisjoint(p[1], p[2]) : p \in TreePairs}

\* Slots on the arena's free list.
FreeCount == Cardinality({i \in 1..Len(arena.items) : ~arena.items[i].occ})

Init ==
    /\ arena = EmptyArena
    /\ ta = DefaultBounds
    /\ tb = DefaultBounds
    /\ res = NoCall
    /\ refmap = EmptyMap
    /\ refmapB = EmptyMap
    /\ mode \in {"free", "perm", "asc"}
    /\ has_cumulant \in BOOLEAN
    /\ sync = IdleSync
    /\ mode # "asc" => ~has_cumulant

\* write().insert(k, v) on tree A
DoInsert(k, v) ==
    \E r \in {TreeInsert(WA, k, v)} :
       /\ arena' = r.w.a
       /\ ta' = r.w.m
       /\ res' = [NoCall EXCEPT !.op = "insert", !.key = k, !.value = v,
                                !.ok = r.ret, !.before = RefGet(refmap, k)]
       /\ refmap' = RefPut(refmap, k, v)
       /\ UNCHANGED <<tb, refmapB, mode, has_cumulant, sync>>

\* write().remove(k) on tree A
DoRemove(k) ==
    \E r \in {TreeRemove(WA, k)} :
       /\ arena' = r.w.a
       /\ ta' = r.w.m
       /\ res' = [NoCall EXCEPT !.op = "remove", !.key = k,
                                !.ret = r.ret, !.before = RefGet(refmap, k)]
       /\ refmap' = RefDel(refmap, k)
       /\ UNCHANGED <<tb, refmapB, mode, has_cumulant, sync>>

\* Any key, present or not, any value.
Insert(k, v) ==
    /\ mode = "free"
    /\ (k \in DOMAIN refmap \/ arena.len < MaxInserts)
    /\ DoInsert(k, v)
Remove(k) == mode = "free" /\ DoRemove(k)

\* Keys 1..PermKeys, each once, in any order, the value being the key.
InsertPerm(k) ==
    /\ mode = "perm"
    /\ FreeCount = 0
    /\ k \notin DOMAIN refmap
    /\ DoInsert(k, k)

\* Keys 1, 2, ... in ascending order, the value being the key.
InsertAsc ==
    /\ mode = "asc"
    /\ FreeCount = 0
    /\ Len(arena.items) < MaxKey
    /\ DoInsert(Len(arena.items) + 1, Len(arena.items) + 1)

\* Then a few removals of present keys.
RemoveAsc(k) ==
    /\ mode \in {"asc", "perm"}
    /\ FreeCount < MaxRemove
    /\ k \in DOMAIN refmap
    /\ DoRemove(k)

Next ==
    \/ \E k \in 1..FreeKeys, v \in Vals : Insert(k, v)
    \/ \E k \in 1..FreeKeys : Remove(k)
    \/ \E k \in 1..PermKeys : InsertPerm(k)
    \/ InsertAsc
    \/ \E k \in 1..MaxKey : RemoveAsc(k)

Spec == Init /\ [][Next]_vars

\* tree.split(&k): tree A is consumed, A and B become the two halves.
Split(k) ==
    /\ mode \in {"free", "perm", "asc"}
    /\ \E r \in {TreeSplit(arena, ta, k)} :
         /\ arena' = r.a
         /\ ta' = r.left
         /\ tb' = r.right
         /\ res' = [NoCall EXCEPT !.op = "split", !.key = k, !.ok = r.ok,
                                  !.ret = r.value, !.before = RefGet(refmap, k)]
    /\ mode' = "done"
    /\ UNCHANGED <<refmap, refmapB, has_cumulant, sync>>

\* A tree built by inserts, thinned by up to MaxRemove removals, then split
\* at any key around or in it.
NextSplit ==
    \/ \E k \in 1..PermKeys : InsertPerm(k)
    \/ InsertAsc
    \/ \E k \in 1..MaxKey : RemoveAsc(k)
    \/ \E k \in 0..(MaxKey + 1) : Split(k)

SpecSplit == Init /\ [][NextSplit]_vars

\* Two trees of one forest, filled in ascending key order: every key goes to
\* A, to B or to both.
InitUnion ==
    /\ arena = EmptyArena
    /\ ta = DefaultBounds
    /\ tb = DefaultBounds
    /\ res = NoCall
    /\ refmap = EmptyMap
    /\ refmapB = EmptyMap
    /\ mode = "union"
    /\ has_cumulant = FALSE
    /\ sync = IdleSync

NextKey == Max(DOMAIN refmap \cup DOMAIN refmapB) + 1

DoInsertB(k, v) ==
    \E r \in {TreeInsert(WB, k, v)} :
        /\ arena' = r.w.a
        /\ tb' = r.w.m
        /\ res' = [NoCall EXCEPT !.op = "insert", !.key = k, !.value = v,
                                 !.ok = r.ret, !.before = RefGet(refmapB, k)]
        /\ refmapB' = RefPut(refmapB, k, v)
        /\ UNCHANGED <<ta, refmap, mode, has_cumulant, sync>>

UnionInsertA ==
    /\ mode = "union"
    /\ NextKey <= UnionKeys
    /\ DoInsert(NextKey, NextKey)

UnionInsertB(k) ==
    /\ mode = "union"
    /\ \/ k = NextKey
       \/ k = NextKey - 1 /\ k \in DOMAIN refmap /\ k \notin DOMAIN refmapB
    /\ DoInsertB(k, 10 + k)

\* a.union_disjoint(b).  Unwrapping an Err unchecked is undefined behaviour:
\* the call may go on as if it had been Ok, or abort.
UnionDisjointCall ==
    /\ mode = "union"
    /\ \E r \in {UnionDisjoint(arena, ta, tb)} :
         /\ arena' = r.a
         /\ ta' = r.m
         /\ tb' = IF r.ok THEN DefaultBounds ELSE tb
         /\ \E returns \in (IF r.ub THEN BOOLEAN ELSE {r.ok}) :
              res' = [NoCall EXCEPT !.op = "union_disjoint", !.ok = returns,
                                   !.ub = r.ub]
    /\ mode' = "done"
    /\ UNCHANGED <<refmap, refmapB, has_cumulant, sync>>

\* a.union_merge(b, MergeFn)
UnionMergeCall ==
    /\ mode = "union"
    /\ \E r \in {UnionMerge(arena, ta, tb, << >>)} :
         /\ arena' = r.a
         /\ ta' = r.m
         /\ tb' = DefaultBounds
         /\ res' = [NoCall EXCEPT !.op = "union_merge", !.calls = r.calls,
                                  !.hung = r.hung, !.ub = r.ub]
    /\ mode' = "done"
    /\ UNCHANGED <<refmap, refmapB, has_cumulant, sync>>

\* Tree::join(a, pivot, b) called with a node of key k that is in neither
\* tree.  On Err the caller gets both handles back.
JoinCall(k) ==
    /\ mode = "union"
    /\ NextKey <= JoinKeys + 1
    /\ \E p \in {ArenaInsert(arena, NewNode(k, k, Red))} :
         \E j \in {Join(p.a, ta, p.index, tb)} :
            /\ arena' = j.a
            /\ ta' = j.m
            /\ tb' = IF j.ok THEN DefaultBounds ELSE tb
            /\ res' = [NoCall EXCEPT !.op = "join", !.key = k,
                                     !.value = p.index, !.ok = j.ok]
    /\ mode' = "done"
    /\ UNCHANGED <<refmap, refmapB, has_cumulant, sync>>

NextUnion ==
    \/ UnionInsertA
    \/ \E k \in 1..UnionKeys : UnionInsertB(k)
    \/ UnionDisjointCall
    \/ UnionMergeCall
    \/ \E k \in 0..(JoinKeys + 1) : JoinCall(k)

SpecUnion == InitUnion /\ [][NextUnion]_vars

\* One tree with an augmented value type (WithSum): inserts of new keys in
\* any order or in ascending order, then removals.
InitCum ==
    /\ arena = EmptyArena
    /\ ta = DefaultBounds
    /\ tb = DefaultBounds
    /\ res = NoCall
    /\ refmap = EmptyMap
    /\ refmapB = EmptyMap
    /\ mode \in {"perm", "asc"}
    /\ has_cumulant = TRUE
    /\ sync = IdleSync

\* Under a write or alloc guard of tree A: guard.get_mut(&k), the value is
\* set to v through the ValueMut, and the ValueMut is dropped (the borrow of
\* the guard it holds ends before the guard can be dropped).
GetMutCall(k, v, guard) ==
    /\ mode \in {"perm", "asc"}
    /\ \E g \in {GetMut(WA, k)} :
         IF g.some
         THEN \E d \in {ValueMutDrop([WA EXCEPT !.a.items[g.value].node.value = v],
                                      g.value, MetaLockOf(guard))} :
                 /\ arena' = d.w.a
                 /\ ta' = d.w.m
                 /\ res' = [NoCall EXCEPT !.op = "get_mut", !.key = k, !.value = v,
                                          !.ret = RefGet(refmap, k), !.hung = d.hung]
                 /\ refmap' = RefPut(refmap, k, v)
         ELSE /\ res' = [NoCall EXCEPT !.op = "get_mut", !.key = k, !.value = v]
              /\ UNCHANGED <<arena, ta, refmap>>
    /\ mode' = "done"
    /\ UNCHANGED <<tb, refmapB, has_cumulant, sync>>

\* One tree under an alloc guard: insert, remove and clear in any order.
InitClear ==
    /\ arena = EmptyArena
    /\ ta = DefaultBounds
    /\ tb = DefaultBounds
    /\ res = NoCall
    /\ refmap = EmptyMap
    /\ refmapB = EmptyMap
    /\ mode = "clear"
    /\ has_cumulant = FALSE
    /\ sync = IdleSync

ClearInsert(k) ==
    /\ mode = "clear"
    /\ (k \in DOMAIN refmap \/ arena.len < MaxInserts)
    /\ DoInsert(k, k)

ClearRemove(k) == mode = "clear" /\ DoRemove(k)

\* alloc().clear() on tree A
Clear ==
    /\ mode = "clear"
    /\ \E w \in {TreeClear(WA)} :
         /\ arena' = w.a
         /\ ta' = w.m
    /\ res' = [NoCall EXCEPT !.op = "clear"]
    /\ refmap' = EmptyMap
    /\ UNCHANGED <<tb, refmapB, mode, has_cumulant, sync>>

NextClear ==
    \/ \E k \in 1..FreeKeys : ClearInsert(k)
    \/ \E k \in 1..FreeKeys : ClearRemove(k)
    \/ Clear

SpecClear == InitClear /\ [][NextClear]_vars

InitBulk ==
    /\ arena = EmptyArena
    /\ ta = DefaultBounds
    /\ tb = DefaultBounds
    /\ res = NoCall
    /\ refmap = EmptyMap
    /\ refmapB = EmptyMap
    /\ mode = "bulk"
    /\ has_cumulant \in BOOLEAN
    /\ sync = IdleSync

\* The sorted input grows by one item, its key step above the last one and
\* its value the key.
BulkItem(step) ==
    /\ mode = "bulk"
    /\ Max(DOMAIN refmap) + step <= BulkMax
    /\ refmap' = RefPut(refmap, Max(DOMAIN refmap) + step, Max(DOMAIN refmap) + step)
    /\ UNCHANGED <<arena, ta, tb, res, refmapB, mode, has_cumulant, sync>>

\* forest.insert_sorted_iter_unchecked(items), insert_sorted_iter and
\* insert_sorted_slice_unchecked alike.
InsertSortedIter ==
    /\ mode = "bulk"
    /\ \E w \in {FromSortedSliceUnchecked([a |-> arena, m |-> DefaultBounds],
                                           RefEntries(refmap))} :
         /\ arena' = w.a
         /\ ta' = w.m
    /\ res' = [NoCall EXCEPT !.op = "bulk"]
    /\ mode' = "done"
    /\ UNCHANGED <<tb, refmap, refmapB, has_cumulant, sync>>

NextBulk ==
    \/ \E step \in 1..2 : BulkItem(step)
    \/ InsertSortedIter

SpecBulk == InitBulk /\ [][NextBulk]_vars

\* for (k, v) in write.iter_mut() { if k in S { change v } }, then the
\* iterator is dropped.
IterMutCall(S) ==
    /\ mode \in {"perm", "asc"}
    /\ \E w \in {IterMutDrop(IterMutNext(WA, ta.range[0], ta.range[1], S,
                                         Len(arena.items) + 1))} :
         /\ arena' = w.a
         /\ ta' = w.m
    /\ res' = [NoCall EXCEPT !.op = "iter_mut"]
    /\ refmap' = [k \in DOMAIN refmap |->
                     IF k \in S THEN MutFn(refmap[k]) ELSE refmap[k]]
    /\ mode' = "done"
    /\ UNCHANGED <<tb, refmapB, has_cumulant, sync>>

\* An augmented tree built by inserts and removals, then walked by iter_mut.
NextIter ==
    \/ \E k \in 1..PermKeys : InsertPerm(k)
    \/ InsertAsc
    \/ \E k \in 1..MaxKey : RemoveAsc(k)
    \/ \E S \in SUBSET (1..IterKeys) : IterMutCall(S)

SpecIter == InitCum /\ [][NextIter]_vars

NextCum ==
    \/ \E k \in 1..PermKeys : InsertPerm(k)
    \/ InsertAsc
    \/ \E k \in 1..MaxKey : RemoveAsc(k)
    \/ \E k \in 1..MaxKey, v \in Vals, guard \in {"write", "alloc"} :
          GetMutCall(k, v, guard)

SpecCum == InitCum /\ [][NextCum]_vars

\* One forest through all its calls: a tree is built by inserts and removals
\* and split; the two halves take more inserts and are united again.
InitForest ==
    /\ arena = EmptyArena
    /\ ta = DefaultBounds
    /\ tb = DefaultBounds
    /\ res = NoCall
    /\ refmap = EmptyMap
    /\ refmapB = EmptyMap
    /\ mode = "forest"
    /\ has_cumulant = FALSE
    /\ sync = IdleSync

\* Keys 1..ForestKeys, each once, in any order.
ForestInsert(k) ==
    /\ mode = "forest"
    /\ FreeCount = 0
    /\ k \notin DOMAIN refmap
    /\ DoInsert(k, k)

ForestRemove(k) ==
    /\ mode = "forest"
    /\ FreeCount < ForestRemoves
    /\ k \in DOMAIN refmap
    /\ DoRemove(k)

\* tree.split(&k); the halves are trees A and B from here on.
ForestSplit(k) ==
    /\ mode = "forest"
    /\ \E r \in {TreeSplit(arena, ta, k)} :
         /\ arena' = r.a
         /\ ta' = r.left
         /\ tb' = r.right
         /\ res' = [NoCall EXCEPT !.op = "split", !.key = k, !.ok = r.ok,
                                  !.ret = r.value, !.before = RefGet(refmap, k)]
    /\ refmap' = [x \in {y \in DOMAIN refmap : y < k} |-> refmap[x]]
    /\ refmapB' = [x \in {y \in DOMAIN refmap : y > k} |-> refmap[x]]
    /\ mode' = "union"
    /\ UNCHANGED <<has_cumulant, sync>>

\* One insert into the right half, of a key that may be in the left half or
\* below it.
ForestInsertB(k) ==
    /\ mode = "union"
    /\ res.op = "split"
    /\ DoInsertB(k, 10 + k)

NextForest ==
    \/ \E k \in 1..ForestKeys : ForestInsert(k)
    \/ \E k \in 1..ForestKeys : ForestRemove(k)
    \/ \E k \in 0..(ForestKeys + 1) : ForestSplit(k)
    \/ \E k \in 1..(ForestKeys + 1) : ForestInsertB(k)
    \/ UnionDisjointCall
    \/ UnionMergeCall

SpecForest == InitForest /\ [][NextForest]_vars

\* ------------------------------------------------- threads and port locks
treevars == <<arena, ta, tb, res, refmap, refmapB, mode, has_cumulant>>

InitSync ==
    /\ arena = EmptyArena
    /\ ta = DefaultBounds
    /\ tb = DefaultBounds
    /\ res = NoCall
    /\ refmap = EmptyMap
    /\ refmapB = EmptyMap
    /\ mode = "sync"
    /\ has_cumulant = FALSE
    /\ sync = IdleSync

\* The step a thread is at; an idle thread is at no step.
At(th, i) == sync.prog[th] # << >> /\ Head(sync.prog[th]).i = i
Cur(th) == Head(sync.prog[th])

\* The rest of the thread's operation after its current step.
Done(th) == [sync EXCEPT !.prog[th] = Tail(@)]

\* An idle thread starts an operation.
Start(th, op) ==
    /\ mode = "sync"
    /\ sync.prog[th] = << >>
    /\ sync' = [sync EXCEPT !.prog[th] = op]
    /\ UNCHANGED treevars

\* The trees the steps of an operation name, and whether it only reads.
TreesOf(op) == {op[i].t : i \in 1..Len(op)}
ReadOnly(op) == \A i \in 1..Len(op) : op[i].g = "read"

\* An idle thread starts an operation on trees it can borrow: write, alloc,
\* union_disjoint, join and split take their trees by &mut or by value, read
\* takes a shared borrow.
StartOwned(th, op) ==
    /\ \A u \in Threads \ {th} :
          \/ TreesOf(op) \cap TreesOf(sync.prog[u]) = {}
          \/ ReadOnly(op) /\ ReadOnly(sync.prog[u])
    /\ Start(th, op)

\* RwLock::read on the arena lock: refused while the writer bit is set, even
\* if its owner still waits for the readers to leave.
ArenaRead(th) ==
    /\ At(th, "arena_read")
    /\ sync.aw = 0
    /\ sync' = [Done(th) EXCEPT !.ar[th] = @ + 1]
    /\ UNCHANGED treevars

\* An upgradable_read that is granted like a shared read.
ArenaUpgradableReadShared(th) ==
    /\ At(th, "arena_upgradable")
    /\ sync.aw = 0
    /\ sync' = [Done(th) EXCEPT !.aup = th]
    /\ UNCHANGED treevars

\* RwLock::upgradable_read on the arena lock: one holder at a time, next to
\* any number of readers.
ArenaUpgradableRead(th) ==
    /\ At(th, "arena_upgradable")
    /\ sync.aw = 0 /\ sync.aup = 0
    /\ sync' = [Done(th) EXCEPT !.aup = th]
    /\ UNCHANGED treevars

\* RwLock::read on the meta lock of a port; the read guard is complete.
MetaRead(th) ==
    /\ At(th, "meta_read")
    /\ sync.mw[Cur(th).t] = 0
    /\ sync' = [Done(th) EXCEPT !.mr[Cur(th).t][th] = @ + 1,
                                !.guards = @ \cup {<<th, "read", Cur(th).t>>}]
    /\ UNCHANGED treevars

\* RwLock::write on the meta lock, first half: take the writer bit.
MetaWrite(th) ==
    /\ At(th, "meta_write")
    /\ sync.mw[Cur(th).t] = 0
    /\ sync' = [Done(th) EXCEPT !.mw[Cur(th).t] = th]
    /\ UNCHANGED treevars

\* A write lock that does not wait for the readers.
MetaWaitNot(th) ==
    /\ At(th, "meta_wait")
    /\ sync' = [Done(th) EXCEPT !.guards = @ \cup {<<th, Cur(th).g, Cur(th).t>>}]
    /\ UNCHANGED treevars

\* RwLock::write on the meta lock, second half: wait until the readers have
\* left; the write or alloc guard is complete.
MetaWait(th) ==
    /\ At(th, "meta_wait")
    /\ \A u \in Threads : sync.mr[Cur(th).t][u] = 0
    /\ sync' = [Done(th) EXCEPT !.guards = @ \cup {<<th, Cur(th).g, Cur(th).t>>}]
    /\ UNCHANGED treevars

\* PortAllocGuard::insert: with room in the arena the node is pushed, a full
\* arena is grown first under with_upgraded.
PortInsert(th) ==
    /\ At(th, "insert")
    /\ sync' = IF sync.spare > 0
               THEN [Done(th) EXCEPT !.spare = @ - 1]
               ELSE [sync EXCEPT !.prog[th] = WithUpgraded(Cur(th).t) \o @]
    /\ UNCHANGED treevars

\* PortAllocGuard::remove: the slot goes to the free list.
PortRemove(th) ==
    /\ At(th, "remove")
    /\ sync' = [Done(th) EXCEPT !.spare = IF @ < MaxSpare THEN @ + 1 ELSE @]
    /\ UNCHANGED treevars

\* RwLockUpgradableReadGuard::with_upgraded, first half: the upgradable slot
\* is traded for the writer bit.
Upgrade(th) ==
    /\ At(th, "upgrade")
    /\ sync' = [Done(th) EXCEPT !.aup = 0, !.aw = th]
    /\ UNCHANGED treevars

\* An upgrade that does not wait for the readers of the arena.
UpgradeWaitNot(th) ==
    /\ At(th, "upgrade_wait")
    /\ sync' = Done(th)
    /\ UNCHANGED treevars

\* with_upgraded, second half: wait until the readers of the arena have left.
UpgradeWait(th) ==
    /\ At(th, "upgrade_wait")
    /\ \A u \in Threads : sync.ar[u] = 0
    /\ sync' = Done(th)
    /\ UNCHANGED treevars

\* Arena::reserve under the exclusive lock, then back to the upgradable slot.
Reserve(th) ==
    /\ At(th, "reserve")
    /\ sync' = [Done(th) EXCEPT !.spare = MaxSpare, !.aw = 0, !.aup = th]
    /\ UNCHANGED treevars

\* Drop of a guard's arena field; the guard is gone.
DropArenaRead(th) ==
    /\ At(th, "drop_arena_read")
    /\ sync' = [Done(th) EXCEPT !.ar[th] = @ - 1,
                                !.guards = @ \ {<<th, Cur(th).g, Cur(th).t>>}]
    /\ UNCHANGED treevars

DropArenaUpgradable(th) ==
    /\ At(th, "drop_arena_upgradable")
    /\ sync' = [Done(th) EXCEPT !.aup = 0,
                                !.guards = @ \ {<<th, Cur(th).g, Cur(th).t>>}]
    /\ UNCHANGED treevars

\* Drop of a guard's meta field.
DropMetaRead(th) ==
    /\ At(th, "drop_meta_read")
    /\ sync' = [Done(th) EXCEPT !.mr[Cur(th).t][th] = @ - 1]
    /\ UNCHANGED treevars

DropMetaWrite(th) ==
    /\ At(th, "drop_meta_write")
    /\ sync' = [Done(th) EXCEPT !.mw[Cur(th).t] = 0]
    /\ UNCHANGED treevars

\* The threads that are inside an operation, and those that cannot take
\* their current step.
MidOp == {th \in Threads : sync.prog[th] # << >>}
Blocked(th) ==
    \/ At(th, "arena_read") /\ sync.aw # 0
    \/ At(th, "arena_upgradable") /\ (sync.aw # 0 \/ sync.aup # 0)
    \/ At(th, "meta_read") /\ sync.mw[Cur(th).t] # 0
    \/ At(th, "meta_write") /\ sync.mw[Cur(th).t] # 0
    \/ At(th, "meta_wait") /\ \E u \in Threads : sync.mr[Cur(th).t][u] # 0
    \/ At(th, "upgrade_wait") /\ \E u \in Threads : sync.ar[u] # 0

NextSync ==
    \/ \E th \in Threads, op \in PortOps : Start(th, op)
    \/ \E th \in Threads : ArenaRead(th)
    \/ \E th \in Threads : ArenaUpgradableRead(th)
    \/ \E th \in Threads : MetaRead(th)
    \/ \E th \in Threads : MetaWrite(th)
    \/ \E th \in Threads : MetaWait(th)
    \/ \E th \in Threads : PortInsert(th)
    \/ \E th \in Threads : PortRemove(th)
    \/ \E th \in Threads : Upgrade(th)
    \/ \E th \in Threads : UpgradeWait(th)
    \/ \E th \in Threads : Reserve(th)
    \/ \E th \in Threads : DropArenaRead(th)
    \/ \E th \in Threads : DropArenaUpgradable(th)
    \/ \E th \in Threads : DropMetaRead(th)
    \/ \E th \in Threads : DropMetaWrite(th)

SpecSync == InitSync /\ [][NextSync]_vars

\* The same threads behind the borrow rules of Tree.
NextOps ==
    \/ \E th \in Threads, op \in Ops : StartOwned(th, op)
    \/ \E th \in Threads : ArenaRead(th)
    \/ \E th \in Threads : ArenaUpgradableRead(th)
    \/ \E th \in Threads : MetaRead(th)
    \/ \E th \in Threads : MetaWrite(th)
    \/ \E th \in Threads : MetaWait(th)
    \/ \E th \in Threads : PortInsert(th)
    \/ \E th \in Threads : PortRemove(th)
    \/ \E th \in Threads : Upgrade(th)
    \/ \E th \in Threads : UpgradeWait(th)
    \/ \E th \in Threads : Reserve(th)
    \/ \E th \in Threads : DropArenaRead(th)
    \/ \E th \in Threads : DropArenaUpgradable(th)
    \/ \E th \in Threads : DropMetaRead(th)
    \/ \E th \in Threads : DropMetaWrite(th)

SpecOps == InitSync /\ [][NextOps]_vars

\* ----------------------------------------------------------------- filter
InitFilter ==
    /\ arena = EmptyArena
    /\ ta = DefaultBounds
    /\ tb = DefaultBounds
    /\ res = NoCall
    /\ refmap = EmptyMap
    /\ refmapB = EmptyMap
    /\ mode = "filter"
    /\ has_cumulant = FALSE
    /\ sync = IdleSync

\* Keys 1, 2, ... in ascending order, each under any action byte.
FilterInsert(v) ==
    /\ mode = "filter"
    /\ Len(arena.items) < FilterKeys
    /\ DoInsert(Len(arena.items) + 1, v)

\* read.filter(action).collect()
FilterCall ==
    /\ mode = "filter"
    /\ res' = [NoCall EXCEPT !.op = "filter",
                             !.calls = FilterCollect(WA, FilterNew(WA), << >>,
                                                     2 * Len(arena.items) + 1)]
    /\ mode' = "done"
    /\ UNCHANGED <<arena, ta, tb, refmap, refmapB, has_cumulant, sync>>

NextFilter ==
    \/ \E v \in 0..7 : FilterInsert(v)
    \/ FilterCall

SpecFilter == InitFilter /\ [][NextFilter]_vars

\* --------------------------------------------------------- join and split
InitJoin ==
    /\ arena = EmptyArena
    /\ ta = DefaultBounds
    /\ tb = DefaultBounds
    /\ res = NoCall
    /\ refmap = EmptyMap
    /\ refmapB = EmptyMap
    /\ mode = "join"
    /\ has_cumulant = FALSE
    /\ sync = IdleSync

\* The left tree takes keys 1, 2, ... in ascending order.
JoinInsertL ==
    /\ mode = "join"
    /\ refmapB = EmptyMap
    /\ FreeCount = 0
    /\ Max(DOMAIN refmap) + 2 <= SplitJoinKeys
    /\ DoInsert(Max(DOMAIN refmap) + 1, Max(DOMAIN refmap) + 1)

\* One removal ends the filling of the left tree.
JoinRemoveL(k) ==
    /\ mode = "join"
    /\ refmapB = EmptyMap
    /\ FreeCount = 0
    /\ k \in DOMAIN refmap
    /\ DoRemove(k)

\* The right tree takes ascending keys that leave one key free above the
\* left tree.
JoinInsertR ==
    /\ mode = "join"
    /\ \E k \in {IF refmapB = EmptyMap THEN Max(DOMAIN refmap) + 2
                  ELSE Max(DOMAIN refmapB) + 1} :
          /\ k <= SplitJoinKeys
          /\ DoInsertB(k, k)

\* One removal ends the filling of the right tree.
JoinRemoveR(k) ==
    /\ mode = "join"
    /\ k \in DOMAIN refmapB
    /\ \E r \in {TreeRemove(WB, k)} :
          /\ arena' = r.w.a
          /\ tb' = r.w.m
          /\ res' = [NoCall EXCEPT !.op = "remove", !.key = k,
                                   !.ret = r.ret, !.before = RefGet(refmapB, k)]
    /\ refmapB' = RefDel(refmapB, k)
    /\ mode' = "thinned"
    /\ UNCHANGED <<ta, refmap, has_cumulant, sync>>

\* Tree::join(left, pivot, right) with a fresh node whose key lies between
\* the two trees.
JoinPivot ==
    /\ mode \in {"join", "thinned"}
    /\ \E p \in {ArenaInsert(arena, NewNode(Max(DOMAIN refmap) + 1,
                                             Max(DOMAIN refmap) + 11, Red))} :
         \E j \in {Join(p.a, ta, p.index, tb)} :
            /\ arena' = j.a
            /\ ta' = j.m
            /\ tb' = IF j.ok THEN DefaultBounds ELSE tb
            /\ res' = [NoCall EXCEPT !.op = "join",
                                     !.key = Max(DOMAIN refmap) + 1,
                                     !.value = Max(DOMAIN refmap) + 11,
                                     !.ok = j.ok]
    /\ mode' = "joined"
    /\ UNCHANGED <<refmap, refmapB, has_cumulant, sync>>

\* joined.split(&pivot.key)
SplitPivot ==
    /\ mode = "joined"
    /\ res.ok
    /\ \E r \in {TreeSplit(arena, ta, res.key)} :
         /\ arena' = r.a
         /\ ta' = r.left
         /\ tb' = r.right
         /\ res' = [NoCall EXCEPT !.op = "split", !.key = res.key,
                                  !.value = res.value, !.ok = r.ok,
                                  !.ret = r.value]
    /\ mode' = "halved"
    /\ UNCHANGED <<refmap, refmapB, has_cumulant, sync>>

NextJoin ==
    \/ JoinInsertL
    \/ \E k \in 1..SplitJoinKeys : JoinRemoveL(k)
    \/ JoinInsertR
    \/ \E k \in 1..SplitJoinKeys : JoinRemoveR(k)
    \/ JoinPivot
    \/ SplitPivot

SpecJoin == InitJoin /\ [][NextJoin]_vars

\* ---------------------------------------------------------------- replace
\* alloc.insert(k, v) on a key the augmented tree holds.
InsertExisting(k, v) ==
    /\ mode \in {"perm", "asc"}
    /\ has_cumulant
    /\ k \in DOMAIN refmap
    /\ \E r \in {TreeInsert(WA, k, v)} :
          /\ arena' = r.w.a
          /\ ta' = r.w.m
          /\ res' = [NoCall EXCEPT !.op = "replace", !.key = k, !.value = v,
                                   !.ok = r.ret, !.before = RefGet(refmap, k)]
    /\ refmap' = RefPut(refmap, k, v)
    /\ mode' = "done"
    /\ UNCHANGED <<tb, refmapB, has_cumulant, sync>>

\* An augmented tree built by inserts and removals, then one insert on a
\* key it holds.
NextReplace ==
    \/ \E k \in 1..PermKeys : InsertPerm(k)
    \/ InsertAsc
    \/ \E k \in 1..MaxKey : RemoveAsc(k)
    \/ \E k \in 1..MaxKey, v \in Vals : InsertExisting(k, v)

SpecReplace == InitCum /\ [][NextReplace]_vars

\* -------------------------------------------------------------- augmented
\* Two augmented trees of one forest, filled in ascending key order.
InitAugmented ==
    /\ arena = EmptyArena
    /\ ta = DefaultBounds
    /\ tb = DefaultBounds
    /\ res = NoCall
    /\ refmap = EmptyMap
    /\ refmapB = EmptyMap
    /\ mode = "union"
    /\ has_cumulant = TRUE
    /\ sync = IdleSync

\* tree.split(&k) on tree A while B is still empty.
SplitAugmented(k) ==
    /\ mode = "union"
    /\ DOMAIN refmapB = {}
    /\ \E r \in {TreeSplit(arena, ta, k)} :
         /\ arena' = r.a
         /\ ta' = r.left
         /\ tb' = r.right
         /\ res' = [NoCall EXCEPT !.op = "split", !.key = k, !.ok = r.ok,
                                  !.ret = r.value, !.before = RefGet(refmap, k)]
    /\ mode' = "done"
    /\ UNCHANGED <<refmap, refmapB, has_cumulant, sync>>

NextAugmented ==
    \/ UnionInsertA
    \/ \E k \in 1..UnionKeys : UnionInsertB(k)
    \/ \E k \in 0..(UnionKeys + 1) : SplitAugmented(k)
    \/ UnionDisjointCall
    \/ UnionMergeCall

SpecAugmented == InitAugmented /\ [][NextAugmented]_vars

\* ---------------------------------------------------------- cursor remove
\* What a CursorAlloc removal hands back: the arena, Some/None as `some`,
\* and the node taken out of the slot.
CursorRemoved(r) == [a |-> r.a, some |-> r.ok, node |-> r.node]

CursorNothing(w) == [a |-> w.a, some |-> FALSE, node |-> NewNode(0, 0, Black)]

\* CursorAlloc::remove_order::<I>: self.tree is the arena's alloc guard, so
\* remove is the arena's.
RemoveOrder(w, I, current) ==
    Bind({
      IF neighbour = None THEN CursorNothing(w)
      ELSE CursorRemoved(ArenaRemove(w.a, neighbour))
      : neighbour \in {IF current # None THEN Nd(w, current).order[I]
                        ELSE w.m.range[1 - I]} })

\* CursorAlloc::remove_parent
RemoveParent(w, current) ==
    IF current = None \/ Nd(w, current).parent = None THEN CursorNothing(w)
    ELSE CursorRemoved(ArenaRemove(w.a, Nd(w, current).parent))

\* CursorAlloc::remove_child::<I>
RemoveChild(w, I, current) ==
    IF current = None \/ Nd(w, current).children[I] = None THEN CursorNothing(w)
    ELSE CursorRemoved(ArenaRemove(w.a, Nd(w, current).children[I]))

\* alloc.cursor_alloc_at(&key) followed by one of remove_prev, remove_next,
\* remove_parent, remove_left and remove_right.
CursorRemoveCall(key, which) ==
    /\ mode \in {"perm", "asc"}
    /\ \E current \in {CursorAt(WA, key)} :
         \E r \in {CASE which = "prev" -> RemoveOrder(WA, 0, current)
                     [] which = "next" -> RemoveOrder(WA, 1, current)
                     [] which = "parent" -> RemoveParent(WA, current)
                     [] which = "left" -> RemoveChild(WA, 0, current)
                     [] OTHER -> RemoveChild(WA, 1, current)} :
            /\ arena' = r.a
            /\ res' = [NoCall EXCEPT !.op = "cursor_remove", !.ok = r.some,
                                     !.key = r.node.key, !.value = r.node.value,
                                     !.before = RefGet(refmap, r.node.key)]
            /\ refmap' = IF r.some THEN RefDel(refmap, r.node.key) ELSE refmap
    /\ mode' = "done"
    /\ UNCHANGED <<ta, tb, refmapB, has_cumulant, sync>>

\* A tree built by inserts and thinned by removals, then one removal through
\* a cursor.
NextCursor ==
    \/ \E k \in 1..PermKeys : InsertPerm(k)
    \/ InsertAsc
    \/ \E k \in 1..MaxKey : RemoveAsc(k)
    \/ \E k \in 0..(MaxKey + 1),
          which \in {"prev", "next", "parent", "left", "right"} :
          CursorRemoveCall(k, which)

SpecCursor == Init /\ [][NextCursor]_vars

\* ------------------------------------------------------------ len_estimate
\* `1 << amount` on usize.  The results are powers of two beyond the
\* range of 32-bit integers, so a power of two is written by its exponent.  An
\* amount of UsizeBits or more panics in a build with overflow checks and is
\* masked to the width in a build without.
ShlOne(amount, overflow_checks) ==
    IF amount < UsizeBits THEN [panic |-> FALSE, exp |-> amount]
    ELSE IF overflow_checks THEN [panic |-> TRUE, exp |-> 0]
    ELSE [panic |-> FALSE, exp |-> amount % UsizeBits]

\* The More arm of len_estimate: More((1 << (h + 1)) - 1) with
\* h = black_height << 2, as the exponent e of the value 2^e - 1.  The u8
\* black_height is widened to usize first, so h itself never overflows.
LenEstimateMore(m, overflow_checks) ==
    ShlOne(m.black_height * 4 + 1, overflow_checks)

\* Trees as len_estimate sees them: the Bounds only.  A red-black tree of
\* black height bh has between 2^bh - 1 and 4^bh - 1 nodes, so its node count
\* has between bh and 2 * bh bits; res.value carries that number of bits.
InitEstimate ==
    /\ arena = EmptyArena
    /\ tb = DefaultBounds
    /\ refmap = EmptyMap
    /\ refmapB = EmptyMap
    /\ mode = "estimate"
    /\ has_cumulant = FALSE
    /\ sync = IdleSync
    /\ \/ ta = DefaultBounds /\ res = [NoCall EXCEPT !.op = "built"]
       \/ /\ ta = [root |-> 1, range |-> Pair(1, 1), black_height |-> 1]
          /\ res = [NoCall EXCEPT !.op = "built", !.value = 1]
       \/ \E bh \in 1..MaxBlackHeight, bits \in 2..(2 * MaxBlackHeight) :
             /\ bh <= bits /\ bits <= 2 * bh
             /\ ta = [root |-> 1, range |-> Pair(2, 3), black_height |-> bh]
             /\ res = [NoCall EXCEPT !.op = "built", !.value = bits]

\* read.len_estimate(), in a build with or without overflow checks.
\* res.key is the variant (0 Empty, 1 Single, 2 More), res.value the exponent
\* e of More(2^e - 1), res.ok FALSE for a panic.
LenEstimateCall(overflow_checks) ==
    /\ mode = "estimate"
    /\ \E r \in {IF LenEstimate(ta) = "More"
                   THEN LenEstimateMore(ta, overflow_checks)
                   ELSE [panic |-> FALSE, exp |-> 0]} :
         res' = [NoCall EXCEPT !.op = "len_estimate",
                               !.key = CASE LenEstimate(ta) = "Empty" -> 0
                                         [] LenEstimate(ta) = "Single" -> 1
                                         [] OTHER -> 2,
                               !.value = r.exp,
                               !.ok = ~r.panic,
                               !.before = SomeValue(res.value)]
    /\ mode' = "done"
    /\ UNCHANGED <<arena, ta, tb, refmap, refmapB, has_cumulant, sync>>

NextEstimate == \E overflow_checks \in BOOLEAN : LenEstimateCall(overflow_checks)

SpecEstimate == InitEstimate /\ [][NextEstimate]_vars

\* ------------------------------------------------------------------ arena
\* An arena behind one alloc guard, driven directly; refmap is the value
\* every live index was given, refmapB the indices freed and not yet reused,
\* the latest last, sync.spare the capacity left in the vector.
InitArena ==
    /\ arena = EmptyArena
    /\ ta = DefaultBounds
    /\ tb = DefaultBounds
    /\ res = NoCall
    /\ refmap = EmptyMap
    /\ refmapB = << >>
    /\ mode = "arena"
    /\ has_cumulant = FALSE
    /\ \E c \in 0..MaxSpare : sync = [IdleSync EXCEPT !.spare = c]

\* PortAllocGuard::insert(v): reserve when the arena is full (the vector
\* gains room for `grow` slots), then insert_within_capacity.  res keeps the
\* index returned, whether it was free of a live entry, the slot freed last
\* and the number of slots before the call.
ArenaInsertCall(v, grow) ==
    /\ mode = "arena"
    /\ arena.len < ArenaInserts
    /\ arena.free # None \/ Len(arena.items) < ArenaSlots
    /\ \E r \in {ArenaInsert(arena, NewNode(v, v, Black))} :
          /\ arena' = r.a
          /\ refmap' = RefPut(refmap, r.index, v)
          /\ res' = [NoCall EXCEPT
                       !.op = "arena_insert", !.key = r.index, !.value = v,
                       !.ok = r.index \notin DOMAIN refmap,
                       !.before = IF refmapB = << >> THEN NoValue
                                  ELSE SomeValue(refmapB[Len(refmapB)]),
                       !.ret = SomeValue(Len(arena.items)),
                       !.ub = IsFull(arena, sync.spare)]
    /\ refmapB' = IF refmapB = << >> THEN refmapB
                  ELSE SubSeq(refmapB, 1, Len(refmapB) - 1)
    /\ sync' = [sync EXCEPT !.spare =
                   (IF IsFull(arena, sync.spare) THEN grow ELSE sync.spare)
                   - (IF arena.free = None THEN 1 ELSE 0)]
    /\ UNCHANGED <<ta, tb, mode, has_cumulant>>

\* PortAllocGuard::remove(index), for any index: live, free or out of range.
ArenaRemoveCall(index) ==
    /\ mode = "arena"
    /\ \E r \in {ArenaRemove(arena, index)} :
          /\ arena' = r.a
          /\ res' = [NoCall EXCEPT
                       !.op = "arena_remove", !.key = index,
                       !.ret = IF r.ok THEN SomeValue(r.node.value) ELSE NoValue,
                       !.before = RefGet(refmap, index),
                       !.ok = (r.a = arena)]
    /\ refmap' = RefDel(refmap, index)
    /\ refmapB' = IF index \in DOMAIN refmap THEN Append(refmapB, index)
                  ELSE refmapB
    /\ UNCHANGED <<ta, tb, mode, has_cumulant, sync>>

NextArena ==
    \/ \E v \in Vals, grow \in 1..MaxSpare : ArenaInsertCall(v, grow)
    \/ \E index \in 1..(ArenaSlots + 1) : ArenaRemoveCall(index)

SpecArena == InitArena /\ [][NextArena]_vars

\* --------------------------------------------------------------- claims
Size(m) == Cardinality(DOMAIN m)

\* The entries a tree holds, in symmetric order.
Entries(w) == EntriesOf(w, InOrder(w, w.m.root))

\* The entries of a sequence with a key below k, and those with one above.
EntriesBelow(s, k) == SelectSeq(s, LAMBDA e : e[1] < k)
EntriesAbove(s, k) == SelectSeq(s, LAMBDA e : e[1] > k)

Valid(w) == P1(w) /\ P2(w) /\ P3(w) /\ P4(w)

\* C1: one tree driven by insert and remove behaves as the reference map:
\* insert returns true iff the key was absent and leaves the new value under
\* the key either way, remove returns the previous value iff the key was
\* present, and get and contains agree with the reference map on every key.
C1_RefinesMap ==
    /\ \A k \in 0..(MaxKey + 1) :
         /\ TreeGet(WA, k) = RefGet(refmap, k)
         /\ TreeContains(WA, k) = (k \in DOMAIN refmap)
    /\ res.op = "insert" =>
         /\ res.ok = ~res.before.some
         /\ TreeGet(WA, res.key) = SomeValue(res.value)
    /\ res.op = "remove" =>
         /\ res.ret = res.before
         /\ ~TreeContains(WA, res.key)

\* An insert that replaced a different value, in an arena that has seen a
\* removal.
C1_Witness ==
    /\ res.op = "insert" /\ ~res.ok
    /\ res.before.some /\ res.before.value # res.value
    /\ arena.len > Size(refmap)

\* C2: from the empty tree, after every insert of a run of inserts the root
\* is black, no red node has a red child, and all paths hold black_height
\* black nodes.
C2_InsertKeepsP1 ==
    (res.op = "insert" /\ arena.len = Size(refmap)) => P1(WA)

\* An insert that took the tree to black height 3.
C2_Witness ==
    /\ res.op = "insert" /\ res.ok
    /\ arena.len = Size(refmap)
    /\ ta.black_height = 3

C4_ThreadInKeyOrder ==
    LET fwd == Thread(WA, ta.range[0], 1, Len(arena.items) + 1)
        bwd == Thread(WA, ta.range[1], 0, Len(arena.items) + 1)
    IN /\ P3(WA)
       /\ KeysOf(WA, fwd) = [i \in 1..Size(refmap) |-> RefEntries(refmap)[i][1]]
       /\ fwd # << >> => fwd[Len(fwd)] = ta.range[1]
       /\ bwd # << >> => bwd[Len(bwd)] = ta.range[0]
       /\ TreeIter(WA) = RefEntries(refmap)

\* A removal of an inner key from a tree that keeps at least three entries.
C4_Witness ==
    /\ res.op = "remove" /\ res.ret.some
    /\ Size(refmap) >= 3
    /\ \E a, b \in DOMAIN refmap : a < res.key /\ res.key < b


\* C5: split(T, k) returns L with exactly the entries of T below k, R with
\* exactly those above k, and Some(value of k) iff k was in T, whatever the
\* position of k; nothing is lost or duplicated.
C5_SplitPartitions ==
    res.op = "split" =>
        /\ res.ok
        /\ Entries(WA) = EntriesBelow(RefEntries(refmap), res.key)
        /\ Entries(WB) = EntriesAbove(RefEntries(refmap), res.key)
        /\ res.ret = RefGet(refmap, res.key)

\* A split at a present inner key that is neither the root's nor an end of
\* the range, with both halves holding at least two entries.
C5_Witness ==
    /\ res.op = "split" /\ res.ret.some
    /\ Len(Entries(WA)) >= 2 /\ Len(Entries(WB)) >= 2
    /\ Size(refmap) = MaxKey

\* C8: both trees returned by split satisfy P1-P4.
C8_SplitKeepsInvariants ==
    res.op = "split" => (Valid(WA) /\ Valid(WB))

\* The reference map of the union of two maps with disjoint key sets.
RefUnion(m, n) == [x \in DOMAIN m \cup DOMAIN n |-> IF x \in DOMAIN m THEN m[x] ELSE n[x]]

\* The key ranges of A and B, as they were before the call, do not intersect.
RangesApart ==
    \/ DOMAIN refmap = {}
    \/ DOMAIN refmapB = {}
    \/ \A x \in DOMAIN refmap : \A y \in DOMAIN refmapB : x < y
    \/ \A x \in DOMAIN refmap : \A y \in DOMAIN refmapB : y < x

\* C6: union_disjoint of two trees whose key ranges do not intersect returns
\* Ok with a tree that iterates exactly the entries of A and of B in key
\* order and whose min and max are the overall smallest and largest key.
C6_UnionDisjointEntries ==
    (res.op = "union_disjoint" /\ RangesApart) =>
        /\ res.ok /\ ~res.ub
        /\ TreeIter(WA) = RefEntries(RefUnion(refmap, refmapB))
        /\ Entries(WA) = TreeIter(WA)
        /\ DOMAIN RefUnion(refmap, refmapB) # {} =>
             /\ \A x \in DOMAIN RefUnion(refmap, refmapB) :
                    TreeMin(arena, ta) <= x /\ x <= TreeMax(arena, ta)
             /\ TreeMin(arena, ta) \in DOMAIN RefUnion(refmap, refmapB)
             /\ TreeMax(arena, ta) \in DOMAIN RefUnion(refmap, refmapB)

\* B lies wholly below A, both with several nodes, and the union went through
\* the pivot and join.
C6_Witness ==
    /\ res.op = "union_disjoint" /\ res.ok
    /\ Size(refmap) >= 2 /\ Size(refmapB) >= 3
    /\ \A x \in DOMAIN refmap : \A y \in DOMAIN refmapB : y < x

\* C7: union_merge returns a tree whose key set is the union of the key sets
\* of A and B, iterated in key order; when the key sets are disjoint the
\* merge function is never called, every entry keeps its value and the size
\* is |A| + |B|.
C7_UnionMergeKeys ==
    res.op = "union_merge" =>
        /\ ~res.hung
        /\ [i \in 1..Len(TreeIter(WA)) |-> TreeIter(WA)[i][1]]
             = [i \in 1..Len(RefEntries(RefUnion(refmap, refmapB))) |->
                   RefEntries(RefUnion(refmap, refmapB))[i][1]]
        /\ DOMAIN refmap \cap DOMAIN refmapB = {} =>
             /\ res.calls = << >>
             /\ TreeIter(WA) = RefEntries(RefUnion(refmap, refmapB))
             /\ Len(TreeIter(WA)) = Size(refmap) + Size(refmapB)

\* C9: the tree a successful union_disjoint returns satisfies P1-P4.
C9_UnionDisjointKeepsInvariants ==
    (res.op = "union_disjoint" /\ res.ok /\ ~res.ub) => Valid(WA)

\* C10: the tree union_merge returns satisfies P1-P4.
C10_UnionMergeKeepsInvariants ==
    (res.op = "union_merge" /\ ~res.hung) => Valid(WA)

\* C11: union_disjoint returns Err(Overlapping) whenever the key ranges of
\* its operands intersect, single-node operands included.
C11_OverlapIsRefused ==
    (res.op = "union_disjoint" /\ ~RangesApart) => (~res.ok /\ ~res.ub)

\* C12: when union_disjoint or join fails, both trees are as they were before
\* the call: same Bounds, and no node moved, removed or recoloured.
C12_FailureKeepsTrees ==
    [][(mode = "union" /\ res'.op \in {"union_disjoint", "join"}
          /\ ~res'.ok /\ ~res'.ub)
       => /\ ta' = ta
          /\ tb' = tb
          /\ \A i \in 1..Len(arena.items) : arena'.items[i] = arena.items[i]]_vars

\* union_disjoint has refused two trees of several nodes each.
C12_Witness ==
    /\ res.op = "union_disjoint" /\ ~res.ok /\ ~res.ub
    /\ Size(refmap) >= 3 /\ Size(refmapB) >= 3

\* The call of the merge function took its `existing` argument from A.
ExistingFromA(c) == c[2] = refmap[c[1]] /\ c[3] = refmapB[c[1]]
ExistingFromB(c) == c[2] = refmapB[c[1]] /\ c[3] = refmap[c[1]]

\* C13: for every key in both A and B, union_merge calls f exactly once as
\* f(existing, incoming) and keeps one entry with the value f produced; the
\* operand that supplies `existing` is the same for every duplicate key,
\* whatever the sizes and shapes of A and B.
C13_MergeOrientation ==
    res.op = "union_merge" =>
        /\ \A i \in 1..Len(res.calls) :
             /\ res.calls[i][1] \in DOMAIN refmap \cap DOMAIN refmapB
             /\ ExistingFromA(res.calls[i]) \/ ExistingFromB(res.calls[i])
        /\ \A i, j \in 1..Len(res.calls) :
             /\ (i # j) => res.calls[i][1] # res.calls[j][1]
             /\ ExistingFromA(res.calls[i]) <=> ExistingFromA(res.calls[j])
        /\ ~res.hung =>
             /\ {res.calls[i][1] : i \in 1..Len(res.calls)}
                  = DOMAIN refmap \cap DOMAIN refmapB
             /\ \A i \in 1..Len(res.calls) :
                  <<res.calls[i][1], MergeFn(res.calls[i][2], res.calls[i][3])>>
                      \in Range(TreeIter(WA))
             /\ Len(TreeIter(WA)) = Size(RefUnion(refmap, refmapB))

\* C14: on an augmented tree, after every insert of a key that was not
\* present, every node's cumulant is the fold of its value and its children's
\* cumulants, and the root's is the fold over all values.
C14_InsertKeepsCumulants ==
    (res.op = "insert" /\ has_cumulant /\ ~res.before.some) =>
        /\ CumulantsOk(WA)
        /\ CumOf(WA, ta.root) = RefSum(refmap)

\* C15: on an augmented tree, after every remove of a present key every
\* remaining node's cumulant is the fold of its value and its children's
\* cumulants.
C15_RemoveKeepsCumulants ==
    (res.op = "remove" /\ has_cumulant /\ res.ret.some) =>
        /\ CumulantsOk(WA)
        /\ CumOf(WA, ta.root) = RefSum(refmap)

\* C16: dropping the ValueMut that get_mut gave on a write or alloc guard
\* takes a write guard on the tree, propagates the cumulants from the node
\* and completes; afterwards every cumulant is the fold of its node's value
\* and its children's cumulants.
C16_ValueMutDropCompletes ==
    (res.op = "get_mut" /\ res.ret.some) =>
        /\ ~res.hung
        /\ CumulantsOk(WA)

\* Key, colour and links of the node in slot i of an arena.
Shape(a, i) ==
    [key |-> a.items[i].node.key, color |-> a.items[i].node.color,
     parent |-> a.items[i].node.parent, children |-> a.items[i].node.children,
     order |-> a.items[i].node.order, occ |-> a.items[i].occ]

\* C17: after an iter_mut iterator is dropped, whatever values the caller
\* changed through it, every node's cumulant is the fold of its value and its
\* children's cumulants, and keys, structure and colours are unchanged.
C17_IterMutRestoresCumulants ==
    [][res'.op = "iter_mut" =>
         /\ CumulantsOk([a |-> arena', m |-> ta'])
         /\ CumOf([a |-> arena', m |-> ta'], ta'.root) = RefSum(refmap')
         /\ EntriesOf([a |-> arena', m |-> ta'], InOrder([a |-> arena', m |-> ta'], ta'.root))
              = RefEntries(refmap')
         /\ ta' = ta
         /\ Len(arena'.items) = Len(arena.items)
         /\ \A i \in 1..Len(arena.items) : Shape(arena', i) = Shape(arena, i)]_vars

\* iter_mut has changed values below the root of a tree of black height 3.
C17_Witness ==
    /\ res.op = "iter_mut"
    /\ ta.black_height = 3
    /\ \E k \in DOMAIN refmap : refmap[k] # k /\ Nd(WA, ta.root).key # k
    /\ \E k \in DOMAIN refmap : refmap[k] = k

\* C18: for every n >= 0 of strictly increasing input the bulk constructors
\* return a tree that holds exactly the n entries and satisfies P1 to P4.
C18_BulkBuildsValidTree ==
    res.op = "bulk" =>
        /\ Entries(WA) = RefEntries(refmap)
        /\ Cardinality(NodesOf(WA)) = Size(refmap)
        /\ arena.len = Size(refmap)
        /\ Valid(WA)

\* A bulk-built tree of 8 entries, the first size of height 4 and one whose
\* two halves differ in height.
C18_Witness ==
    /\ res.op = "bulk"
    /\ Size(refmap) = 8
    /\ ta.black_height = 2

\* C19: right after the bulk construction of an augmented tree every node's
\* cumulant is the fold of its value and its children's cumulants, so the
\* root's is the fold over all values.
C19_BulkCumulants ==
    (res.op = "bulk" /\ has_cumulant) =>
        /\ CumulantsOk(WA)
        /\ CumOf(WA, ta.root) = RefSum(refmap)

\* C20: in every state a tree reaches through insert, remove and clear, the
\* root is None iff the range is [None, None] iff black_height is 0.
C20_EmptyBoundsAgree ==
    mode = "clear" =>
        /\ (ta.root = None) <=> (ta.range = Pair(None, None))
        /\ (ta.root = None) <=> (ta.black_height = 0)

\* C21: a Write or Alloc guard on a tree is never held together with any
\* other guard on that tree; Read guards on it may be held together.
C21_WriteGuardIsExclusive ==
    \A x \in sync.guards :
        x[2] \in {"write", "alloc"} =>
            /\ \A y \in sync.guards : y[3] = x[3] => y = x
            /\ sync.mw[x[3]] = x[1]
            /\ \A u \in Threads : sync.mr[x[3]][u] = 0

\* A thread holds the Write guard of a tree while another one, which has the
\* arena lock already, waits for the Read guard of the same tree.
C21_Witness ==
    \E th \in Threads, u \in Threads, t \in Trees :
        /\ <<th, "write", t>> \in sync.guards
        /\ u # th /\ At(u, "meta_read") /\ Cur(u).t = t /\ Blocked(u)

\* C22: Read and Write guards of different trees are held by two threads at
\* once.  They take the arena lock shared only, so a thread that asks for a
\* Read or Write guard is kept waiting at the arena lock by nothing but the
\* growth of the arena under an Alloc guard, and at the meta lock only by a
\* guard on the same tree.
C22_OtherTreesDoNotBlock ==
    /\ \A th \in Threads :
         (sync.aw = th \/ sync.aup = th) => (th \in MidOp /\ Cur(th).g = "alloc")
    /\ \A th \in Threads :
         (At(th, "arena_read") /\ Blocked(th)) =>
             /\ \E t \in Trees : <<sync.aw, "alloc", t>> \in sync.guards
             /\ sync.prog[sync.aw][1].i \in {"upgrade_wait", "reserve"}
    /\ \A th \in Threads :
         ((At(th, "meta_read") \/ At(th, "meta_write") \/ At(th, "meta_wait"))
            /\ Blocked(th)) =>
             \E u \in Threads \ {th} :
                 \/ \E g \in {"read", "write", "alloc"} :
                        <<u, g, Cur(th).t>> \in sync.guards
                 \/ u \in MidOp /\ Cur(u).t = Cur(th).t

\* Two threads hold Write guards on two different trees.
C22_Witness ==
    \E th \in Threads, u \in Threads, a \in Trees, b \in Trees :
        /\ th # u /\ a # b
        /\ <<th, "write", a>> \in sync.guards
        /\ <<u, "write", b>> \in sync.guards

\* C23: at most one Alloc guard is held in the whole forest, and a thread
\* that inserts into or removes from the arena, or grows it, is the one
\* holder of the upgradable slot (of the exclusive lock while it grows).
C23_OneAllocGuard ==
    /\ \A x \in sync.guards : \A y \in sync.guards :
         (x[2] = "alloc" /\ y[2] = "alloc") => x = y
    /\ \A th \in Threads :
         /\ (At(th, "insert") \/ At(th, "remove") \/ At(th, "upgrade")) =>
                sync.aup = th /\ sync.aw = 0
         /\ At(th, "reserve") =>
                sync.aw = th /\ \A u \in Threads : sync.ar[u] = 0
    /\ Cardinality({th \in Threads :
                       At(th, "insert") \/ At(th, "remove") \/ At(th, "upgrade")
                       \/ At(th, "upgrade_wait") \/ At(th, "reserve")}) <= 1

\* One thread is about to insert under its Alloc guard on one tree while
\* another waits for the upgradable slot to take an Alloc guard on another.
C23_Witness ==
    \E th \in Threads, u \in Threads :
        /\ th # u
        /\ At(th, "insert") /\ <<th, "alloc", Cur(th).t>> \in sync.guards
        /\ At(u, "arena_upgradable") /\ Cur(u).t # Cur(th).t /\ Blocked(u)

\* C24: no state is reached in which the threads that are inside an
\* operation all wait: every started operation can go on.
C24_NoDeadlock ==
    ~(MidOp # {} /\ \A th \in MidOp : Blocked(th))

\* The node indices met from the root of a tree or along its thread.
Reach(w) ==
    NodesOf(w) \cup Range(Thread(w, w.m.range[0], 1, Len(w.a.items) + 1))
               \cup Range(Thread(w, w.m.range[1], 0, Len(w.a.items) + 1))

\* C25: after any sequence of insert, remove, split, union_disjoint and
\* union_merge, every node index met from a tree's root or thread is an
\* Occupied slot, and no node is met from two live trees.
C25_NodesHaveOneOwner ==
    /\ \A n \in Reach(WA) \cup Reach(WB) : arena.items[n].occ
    /\ Reach(WA) \cap Reach(WB) = {}

\* A split at a present key left two halves, the right one took an insert
\* into the slot of the pivot, and a union_merge made one tree of them again.
C25_Witness ==
    /\ res.op = "union_merge" /\ ~res.hung
    /\ Size(refmap) >= 2 /\ Size(refmapB) >= 2
    /\ FreeCount = 0
    /\ Cardinality(Reach(WA)) = Size(refmap) + Size(refmapB)

\* C26: for every target t, search_by with the key comparator returns Empty
\* iff the tree is empty and Here(t) iff t is a key; otherwise it returns
\* LeftOf(s) with s the smallest key above t or RightOf(p) with p the largest
\* key below t, a target below the minimum giving LeftOf(min) and one above
\* the maximum RightOf(max).
C26_SearchByFindsNeighbour ==
    \A t \in 0..(MaxKey + 1) :
       \E r \in {TreeSearchBy(WA, [key |-> t])} :
          LET K == DOMAIN refmap
              above == {k \in K : k > t}
              below == {k \in K : k < t}
          IN /\ r.tag \in {"Empty", "Here", "LeftOf", "RightOf"}
             /\ (r.tag = "Empty") = (K = {})
             /\ (r.tag = "Here") = (t \in K)
             /\ r.tag = "Here" => r.key = t
             /\ r.tag = "LeftOf" =>
                  /\ r.key \in above
                  /\ \A k \in above : r.key <= k
             /\ r.tag = "RightOf" =>
                  /\ r.key \in below
                  /\ \A k \in below : k <= r.key
             /\ (K # {} /\ below = {} /\ t \notin K) => r.tag = "LeftOf"
             /\ (K # {} /\ above = {} /\ t \notin K) => r.tag = "RightOf"

\* A tree that has seen a removal, with one absent target inside the range
\* answered LeftOf and another answered RightOf, and absent targets on both
\* sides of the range.
C26_Witness ==
    /\ Size(refmap) >= 3
    /\ arena.len > Size(refmap)
    /\ 0 \notin DOMAIN refmap /\ (MaxKey + 1) \notin DOMAIN refmap
    /\ \E t \in 1..MaxKey :
          /\ t \notin DOMAIN refmap
          /\ \E a, b \in DOMAIN refmap : a < t /\ t < b
          /\ TreeSearchBy(WA, [key |-> t]).tag = "LeftOf"
    /\ \E t \in 1..MaxKey :
          /\ t \notin DOMAIN refmap
          /\ \E a, b \in DOMAIN refmap : a < t /\ t < b
          /\ TreeSearchBy(WA, [key |-> t]).tag = "RightOf"

\* Whether the actions of all proper ancestors of node n let a walk from the
\* root descend to n.
RECURSIVE Descends(_, _, _)
Descends(w, n, fuel) ==
    \/ n = w.m.root
    \/ /\ fuel > 0
       /\ Nd(w, n).parent # None
       /\ \E p \in {Nd(w, Nd(w, n).parent)} :
             IF p.children[0] = n THEN ActionLeft(FilterAction(p.key, p.value))
                                  ELSE ActionRight(FilterAction(p.key, p.value))
       /\ Descends(w, Nd(w, n).parent, fuel - 1)

\* C27: filter calls the action on exactly the nodes that every proper
\* ancestor's action allows descending to, each once, and emits exactly those
\* of them the action marks as a match, each once with its key and value;
\* when the action always descends left and descends right and matches up
\* to a bound, the entries up to the bound are what is emitted.
C27_FilterFollowsActions ==
    res.op = "filter" =>
      LET steps == res.calls
          want == {n \in NodesOf(WA) : Descends(WA, n, Len(arena.items))}
      IN /\ {steps[i].at : i \in DOMAIN steps} = want
         /\ \A i, j \in DOMAIN steps : steps[i].at = steps[j].at => i = j
         /\ \A i \in DOMAIN steps :
               \E node \in {Nd(WA, steps[i].at)} :
                  /\ steps[i].item.some = ActionMatch(FilterAction(node.key, node.value))
                  /\ steps[i].item.some =>
                       /\ steps[i].item.key = node.key
                       /\ steps[i].item.value = node.value
         /\ \A b \in 0..FilterKeys :
               (\A k \in DOMAIN refmap :
                   refmap[k] = SearchActionNew(TRUE, k <= b, k <= b))
               => {steps[i].item.key : i \in {j \in DOMAIN steps : steps[j].item.some}}
                    = {k \in DOMAIN refmap : k <= b}

\* A walk of a tree three levels deep that emitted a node of the lowest
\* level, passed a node without emitting it, and left out a matching node
\* below a refused descent.
C27_Witness ==
    /\ res.op = "filter"
    /\ Size(refmap) = FilterKeys
    /\ \E i \in DOMAIN res.calls :
          /\ res.calls[i].item.some
          /\ Nd(WA, res.calls[i].at).parent # None
          /\ Nd(WA, Nd(WA, res.calls[i].at).parent).parent # None
    /\ \E i \in DOMAIN res.calls : ~res.calls[i].item.some
    /\ \E n \in NodesOf(WA) :
          /\ ActionMatch(FilterAction(Nd(WA, n).key, Nd(WA, n).value))
          /\ \A i \in DOMAIN res.calls : res.calls[i].at # n

\* C28: for bounds min <= max, iter_range::<LI, RI>(min, max) yields in
\* increasing key order exactly the entries whose key lies between min and
\* max, an end counting as inside when its flag is true, whether or not min
\* and max are keys of the tree.
C28_IterRangeYieldsRange ==
    \A LI, RI \in BOOLEAN :
       \A min, max \in 0..(MaxKey + 1) :
          min <= max =>
             TreeIterRange(WA, LI, RI, min, max)
               = SelectSeq(RefEntries(refmap),
                           LAMBDA e : /\ (min < e[1] \/ (LI /\ min = e[1]))
                                      /\ (e[1] < max \/ (RI /\ max = e[1])))

\* C29: on a tree of n >= 1 keys a cursor put on the minimum and moved with
\* move_next reads the keys in increasing order, reads None after the
\* maximum and the minimum again after one more move; a cursor put on the
\* maximum and moved with move_prev reads them in decreasing order, None
\* after the minimum and then the maximum.
C29_CursorIsCyclic ==
    refmap # EmptyMap =>
      LET keys == RefEntries(refmap)
          n == Len(keys)
          fwd == CursorWalk(WA, 1, CursorAt(WA, keys[1][1]), n + 1)
          bwd == CursorWalk(WA, 0, CursorAt(WA, keys[n][1]), n + 1)
      IN /\ CursorKey(WA, CursorAt(WA, keys[1][1])) = SomeValue(keys[1][1])
         /\ CursorKey(WA, CursorAt(WA, keys[n][1])) = SomeValue(keys[n][1])
         /\ \A i \in 1..(n - 1) :
               /\ fwd[i] = SomeValue(keys[i + 1][1])
               /\ bwd[i] = SomeValue(keys[n - i][1])
         /\ fwd[n] = NoValue /\ fwd[n + 1] = SomeValue(keys[1][1])
         /\ bwd[n] = NoValue /\ bwd[n + 1] = SomeValue(keys[n][1])

\* A tree of at least four keys that has seen a removal, whose cursor went
\* round once in each direction.
C29_Witness ==
    /\ Size(refmap) >= 4
    /\ arena.len > Size(refmap)
    /\ res.op = "remove" /\ res.ret.some
    /\ CursorWalk(WA, 1, ta.range[0], Size(refmap) + 1)[Size(refmap)] = NoValue
    /\ CursorWalk(WA, 0, ta.range[1], Size(refmap) + 1)[Size(refmap)] = NoValue
    /\ CursorWalk(WA, 1, ta.range[0], Size(refmap) + 1)[Size(refmap) + 1]
         = SomeValue(Nd(WA, ta.range[0]).key)

\* C30: for valid trees L and R and a pivot entry whose key lies above the
\* keys of L and below those of R, the join of L, pivot and R split at the
\* pivot's key gives the pivot's value and two trees that hold exactly the
\* entries of L and exactly the entries of R.
C30_SplitUndoesJoin ==
    /\ mode \in {"join", "thinned"} => Valid(WA) /\ Valid(WB)
    /\ mode = "joined" => res.ok
    /\ mode = "halved" =>
         /\ res.ok
         /\ res.ret = SomeValue(res.value)
         /\ Entries(WA) = RefEntries(refmap)
         /\ Entries(WB) = RefEntries(refmapB)

\* Two trees, each thinned by a removal, the right one the larger, joined
\* around the pivot and split again.
C30_Witness ==
    /\ mode = "halved"
    /\ Size(refmap) >= 2 /\ Size(refmapB) >= 4
    /\ Max(DOMAIN refmap) + 2 \in DOMAIN refmapB
    /\ \E k \in 1..Max(DOMAIN refmap) : k \notin DOMAIN refmap
    /\ \E k \in 1..Max(DOMAIN refmapB) :
          k > Max(DOMAIN refmap) + 2 /\ k \notin DOMAIN refmapB
    /\ res.ret.some

\* C31: union_merge of a tree with an empty tree, on either side, returns a
\* tree with exactly the entries of the tree and never calls the merge
\* function; union_merge of two trees with the same keys returns, for every
\* size down to a single node, with exactly those keys, each merged once.
C31_UnionMergeIdentity ==
    res.op = "union_merge" =>
        /\ (refmap = EmptyMap \/ refmapB = EmptyMap) =>
             /\ ~res.hung
             /\ res.calls = << >>
             /\ TreeIter(WA) = RefEntries(RefUnion(refmap, refmapB))
        /\ (DOMAIN refmap = DOMAIN refmapB) =>
             /\ ~res.hung
             /\ [i \in 1..Len(TreeIter(WA)) |-> TreeIter(WA)[i][1]]
                  = [i \in 1..Len(RefEntries(refmap)) |-> RefEntries(refmap)[i][1]]
             /\ {res.calls[i][1] : i \in 1..Len(res.calls)} = DOMAIN refmap
             /\ Len(res.calls) = Size(refmap)

\* The slots of the arena in the Occupied state.
OccupiedSlots == {i \in 1..Len(arena.items) : arena.items[i].occ}

\* C32: after any sequence of arena inserts and removes the occupied count
\* of the arena is the number of slots in the Occupied state.
C32_LenCountsOccupied ==
    mode = "arena" => arena.len = Cardinality(OccupiedSlots)

\* The slots met from a free-list head along the Free(next) links.
RECURSIVE FreeChain(_, _, _)
FreeChain(a, head, fuel) ==
    IF head = None \/ fuel = 0 THEN << >>
    ELSE <<head>> \o FreeChain(a, a.items[head].next, fuel - 1)

\* C33: after any sequence of arena inserts and removes the chain from the
\* free-list head ends, visits exactly the slots in the Free state, each
\* once, the one freed last first; a remove of a free or out-of-range index
\* returns None and changes nothing; an insert appends a slot only when the
\* chain is empty and otherwise reuses the slot freed last.
C33_FreeListIsFreeSlots ==
    mode = "arena" =>
      LET chain == FreeChain(arena, arena.free, Len(arena.items) + 1)
      IN /\ Len(chain) <= Len(arena.items)
         /\ \A i, j \in DOMAIN chain : chain[i] = chain[j] => i = j
         /\ Range(chain) = (1..Len(arena.items)) \ OccupiedSlots
         /\ chain = Reverse(refmapB)
         /\ (res.op = "arena_remove" /\ ~res.before.some) =>
               res.ret = NoValue /\ res.ok
         /\ (res.op = "arena_insert" /\ res.before.some) =>
               /\ res.key = res.before.value
               /\ Len(arena.items) = res.ret.value
         /\ (res.op = "arena_insert" /\ ~res.before.some) =>
               /\ res.key = res.ret.value + 1
               /\ Len(arena.items) = res.ret.value + 1

\* An insert reused the slot freed last while two more slots, freed out of
\* index order, stayed on the free list.
C33_Witness ==
    /\ mode = "arena"
    /\ res.op = "arena_insert" /\ res.before.some
    /\ Len(refmapB) >= 2
    /\ refmapB[1] > refmapB[2]
    /\ res.key < refmapB[1]

\* C34: an index returned by the arena's insert denotes the value inserted,
\* through inserts and removes of other indices and through growth of the
\* vector, until it is removed: get gives the value for every live index and
\* None for every other, no insert returns a live index, and remove of a
\* live index returns its value and leaves get at None.
C34_IndexDenotesEntry ==
    mode = "arena" =>
      /\ \A i \in 1..(ArenaSlots + 1) :
            /\ ArenaGet(arena, i) = RefGet(refmap, i)
            /\ ArenaContains(arena, i) = (i \in DOMAIN refmap)
      /\ res.op = "arena_insert" =>
            /\ res.ok
            /\ ArenaGet(arena, res.key) = SomeValue(res.value)
      /\ res.op = "arena_remove" =>
            /\ res.ret = res.before
            /\ ArenaGet(arena, res.key) = NoValue

\* An insert that made the vector grow, in an arena that holds three other
\* live entries and has reused a slot before.
C34_Witness ==
    /\ mode = "arena"
    /\ res.op = "arena_insert" /\ res.ub
    /\ Size(refmap) = ArenaSlots
    /\ arena.len > Len(arena.items)
    /\ \E i, j \in DOMAIN refmap : refmap[i] # refmap[j]

\* C35: the vector of the arena grows only under the exclusive arena lock,
\* when no other thread holds a guard or any hold of the arena lock; the
\* exclusive lock is asked for only by an insert that found the arena full;
\* an insert that finds room completes without it, and the insert that has
\* grown the vector finds room.
C35_GrowthIsExclusive ==
    /\ [](\A th \in Threads :
            /\ At(th, "reserve") =>
                  /\ sync.aw = th /\ sync.aup = 0
                  /\ \A u \in Threads : sync.ar[u] = 0
                  /\ \A g \in sync.guards : g[1] = th
            /\ (At(th, "upgrade") \/ At(th, "upgrade_wait") \/ At(th, "reserve"))
                  => sync.spare = 0
            /\ sync.aw = th =>
                  (At(th, "upgrade_wait") \/ At(th, "reserve")))
    /\ [][\A th \in Threads :
            /\ (At(th, "insert") /\ sync.spare > 0
                                 /\ sync.prog[th]' # sync.prog[th]) =>
                  /\ sync.prog[th]' = Tail(sync.prog[th])
                  /\ sync.aw' = 0
            /\ (At(th, "reserve") /\ sync.prog[th]' # sync.prog[th]) =>
                  /\ sync.prog[th]' # << >>
                  /\ Head(sync.prog[th]').i = "insert"
                  /\ sync.spare' > 0]_vars

\* One thread grows the vector under its Alloc guard while another, which
\* holds nothing, waits for the arena lock to take a guard on another tree.
C35_Witness ==
    \E th \in Threads, u \in Threads :
        /\ th # u
        /\ At(th, "reserve") /\ <<th, "alloc", Cur(th).t>> \in sync.guards
        /\ At(u, "arena_read") /\ Cur(u).t # Cur(th).t /\ Blocked(u)

\* C36: on an augmented tree whose cumulants are right, insert on a key that
\* is present returns false, leaves the new value under the key and every
\* node's cumulant the fold of its value and its children's cumulants, and
\* changes no key, colour, link or bound.
C36_ReplaceKeepsCumulants ==
    [][(res'.op = "replace" /\ CumulantsOk(WA)) =>
         /\ ~res'.ok
         /\ TreeGet([a |-> arena', m |-> ta'], res'.key) = SomeValue(res'.value)
         /\ CumulantsOk([a |-> arena', m |-> ta'])
         /\ CumOf([a |-> arena', m |-> ta'], ta'.root) = RefSum(refmap')
         /\ ta' = ta
         /\ Len(arena'.items) = Len(arena.items)
         /\ \A i \in 1..Len(arena.items) : Shape(arena', i) = Shape(arena, i)]_vars

\* C37: on augmented trees whose cumulants are right, every tree that split,
\* union_disjoint or union_merge returns has at every node the fold of the
\* node's value and its children's cumulants as cumulant.
C37_ReturnedTreesKeepCumulants ==
    [][(/\ res'.op \in {"split", "union_disjoint", "union_merge"}
        /\ ~res'.hung /\ ~res'.ub
        /\ res'.op = "union_disjoint" => res'.ok
        /\ CumulantsOk(WA) /\ CumulantsOk(WB)) =>
         /\ CumulantsOk([a |-> arena', m |-> ta'])
         /\ CumulantsOk([a |-> arena', m |-> tb'])]_vars

\* C38: after a CursorAlloc removal returned Some((k, v)), (k, v) was an
\* entry of the tree, every node met from the root or along the thread is an
\* Occupied slot, the tree satisfies P1-P4 and no longer contains k.
C38_CursorRemoveUnlinks ==
    (res.op = "cursor_remove" /\ res.ok) =>
        /\ res.before = SomeValue(res.value)
        /\ \A n \in Reach(WA) : arena.items[n].occ
        /\ Valid(WA)
        /\ ~TreeGet(WA, res.key).some

\* C39: for every tree of two or more nodes, whatever its black_height,
\* len_estimate returns More(2^(4 * black_height + 1) - 1) without a shift
\* overflow, and the tree has no more nodes than that.
C39_LenEstimateIsUpperBound ==
    (res.op = "len_estimate" /\ res.key = 2) =>
        /\ res.ok
        /\ res.value = 4 * ta.black_height + 1
        /\ res.value < UsizeBits
        /\ res.before.value <= res.value


====
